---- MODULE Spec2Model ----
(***************************************************************************)
(* Trellis: task lifecycle, journal ledger and worktree provisioning.      *)
(*                                                                         *)
(* The file system is the state.  A journal file is a sequence of line     *)
(* items; every item stands for newline-terminated lines of text:          *)
(*   k = "top"  the 7-line banner createJournalFile writes (n = part),     *)
(*   k = "hdr"  one line matching /^## Session \d+:/ (n = its number),     *)
(*   k = "txt"  w consecutive lines that do not match that pattern.        *)
(***************************************************************************)
EXTENDS Integers, Sequences, FiniteSets, TLC

VARIABLES
    developer,   \* content of the .developer file: a name, or NoDeveloper
    workspace,   \* developer -> (journal file number -> file content)
    proc,        \* addSession calls in flight, one slot per OS process
    today,       \* the current date, as a day number
    tasks,       \* active task directory name -> content of its task.json
    dirOrder,    \* the active task directories in readdir order
    archive,     \* <<year-month, directory name>> -> content of its task.json
    currentTask, \* the .current-task pointer: a directory name, or NoPointer
    contextFiles, \* task directory -> (manifest file name -> its lines)
    agents,      \* the agent processes spawned so far: pid -> its state
    wtConfig,    \* the content of worktree.yaml
    mainFiles,   \* the bootstrap files present in the main tree
    worktrees,   \* the linked worktrees git knows: path -> branch and files
    wtEvents,    \* what the last worktree call did, in order
    lastOp,      \* the operation that completed last, its input and result
    nCalls       \* number of operations completed so far

journalVars == <<developer, workspace, proc>>
taskVars == <<today, tasks, dirOrder, archive, currentTask>>
wtVars == <<wtConfig, mainFiles, worktrees, wtEvents>>
vars == <<developer, workspace, proc, today, tasks, dirOrder, archive,
          currentTask, contextFiles, agents, wtConfig, mainFiles, worktrees,
          wtEvents, lastOp, nCalls>>

(***************************************************************************)
(* Bounds                                                                  *)
(***************************************************************************)

MaxCalls == 4

(***************************************************************************)
(* Program constants and values                                            *)
(***************************************************************************)

MAX_JOURNAL_LINES == 2000

Null == [null |-> TRUE]
Undefined == [undefined |-> TRUE]
NoDeveloper == "<none>"
Developers == {"alice", "bob"}
Procs == {"p1", "p2"}

DEFAULT_WORKTREE_CONFIG ==
    [base_dir |-> "../.worktrees", copy_files |-> <<".env", ".env.local">>,
     post_create |-> <<>>]

(***************************************************************************)
(* Helpers                                                                 *)
(***************************************************************************)

RECURSIVE SumW(_)
SumW(f) == IF f = <<>> THEN 0 ELSE Head(f).w + SumW(Tail(f))

RECURSIVE SortedSeq(_)
SortedSeq(S) ==
    IF S = {} THEN <<>>
    ELSE LET m == CHOOSE x \in S : \A y \in S : x <= y
         IN  <<m>> \o SortedSeq(S \ {m})

Range(seq) == {seq[i] : i \in DOMAIN seq}

Remove(seq, x) == SelectSeq(seq, LAMBDA y : y # x)

InsertAt(seq, i, x) == SubSeq(seq, 1, i) \o <<x>> \o SubSeq(seq, i + 1, Len(seq))

Without(f, x) == [y \in DOMAIN f \ {x} |-> f[y]]

With(f, x, v) == [y \in DOMAIN f \cup {x} |-> IF y = x THEN v ELSE f[y]]

Throws(message) == [error |-> message]

Done(op, arg, ret) ==
    /\ lastOp' = [op |-> op, arg |-> arg, ret |-> ret]
    /\ nCalls' = nCalls + 1

(***************************************************************************)
(* Text of sessions and journal files                                      *)
(***************************************************************************)

Txt(w) == [k |-> "txt", n |-> 0, w |-> w]
Hdr(n) == [k |-> "hdr", n |-> n, w |-> 1]
Top(part) == [k |-> "top", n |-> part, w |-> 7]

\* A string the caller passes is the sequence of its lines.  NearFull is the
\* body size with which one session brings a fresh journal file to
\* MAX_JOURNAL_LINES - 1 counted lines.
NearFull == MAX_JOURNAL_LINES - 18

PlainSession ==
    [title |-> <<Txt(1)>>, commit |-> FALSE, summary |-> <<>>, content |-> <<>>]

PlainInputs ==
    { PlainSession,
      [PlainSession EXCEPT !.commit = TRUE, !.summary = <<Txt(1)>>,
                           !.content = <<Txt(2)>>],
      [PlainSession EXCEPT !.content = <<Txt(NearFull)>>],
      [PlainSession EXCEPT !.content = <<Txt(NearFull + 1)>>] }

\* Sessions whose text holds a line that itself reads "## Session <d>: ...".
QuotingInputs ==
    { [PlainSession EXCEPT !.content = <<Txt(1), Hdr(1)>>],
      [PlainSession EXCEPT !.summary = <<Hdr(2)>>],
      [PlainSession EXCEPT !.title = <<Txt(1), Hdr(9)>>] }

SessionInputs == PlainInputs \cup QuotingInputs

OpsInputs == {PlainSession, [PlainSession EXCEPT !.content = <<Txt(NearFull + 1)>>]}
FileNumbers == {1, 2}

(***************************************************************************)
(* core/developer/index.ts                                                 *)
(***************************************************************************)

GetDeveloper == IF developer = NoDeveloper THEN Null ELSE [name |-> developer]

\* content.split("\n").length: every line item ends in a newline, so the
\* split yields one more piece than there are newlines.
CountLines(ws, n) == IF n \in DOMAIN ws THEN SumW(ws[n]) + 1 ELSE 0

(***************************************************************************)
(* core/session/journal.ts                                                 *)
(***************************************************************************)

WsOf(dev) == IF dev \in Developers THEN workspace[dev] ELSE <<>>
Ws == WsOf(developer)

GetJournalFiles(ws) == SortedSeq(DOMAIN ws)

CountSessionsInFile(ws, n) ==
    IF n \in DOMAIN ws
    THEN Len(SelectSeq(ws[n], LAMBDA it : it.k = "hdr"))
    ELSE 0

RECURSIVE SumSessions(_, _)
SumSessions(ws, js) ==
    IF js = <<>> THEN 0
    ELSE CountSessionsInFile(ws, Head(js)) + SumSessions(ws, Tail(js))

GetTotalSessionCount(ws) == SumSessions(ws, GetJournalFiles(ws))

\* Faulty variant: the first, not the last, of the sorted journals is taken as active.
GetActiveJournalLowest(dev, ws) ==
    LET journals == GetJournalFiles(ws) IN
    IF dev = Null THEN Null
    ELSE IF Len(journals) = 0 THEN Null
    ELSE LET latest == journals[1] IN
         [ fileNumber   |-> latest,
           lineCount    |-> CountLines(ws, latest),
           sessionCount |-> GetTotalSessionCount(ws) ]

GetActiveJournal(dev, ws) ==
    LET journals == GetJournalFiles(ws) IN
    IF dev = Null THEN Null
    ELSE IF Len(journals) = 0 THEN Null
    ELSE LET latest == journals[Len(journals)] IN
         [ fileNumber   |-> latest,
           lineCount    |-> CountLines(ws, latest),
           sessionCount |-> GetTotalSessionCount(ws) ]

\* fs.writeFileSync: the file holds the banner and nothing else afterwards.
CreateJournalFile(ws, fileNumber) ==
    [m \in DOMAIN ws \cup {fileNumber} |->
        IF m = fileNumber THEN <<Top(fileNumber)>> ELSE ws[m]]

\* Faulty variant: rotation only once the threshold is exceeded.
NeedsRotationStrict(lineCount) == lineCount > MAX_JOURNAL_LINES

NeedsRotation(lineCount) == lineCount >= MAX_JOURNAL_LINES

\* Faulty variant: the first journal file is numbered from zero.
RotateJournalFromZero(dev, ws) ==
    LET activeJournal == GetActiveJournal(dev, ws) IN
    IF activeJournal = Null
    THEN [ws |-> CreateJournalFile(ws, 0), path |-> 0]
    ELSE IF NeedsRotation(activeJournal.lineCount)
    THEN [ws   |-> CreateJournalFile(ws, activeJournal.fileNumber + 1),
          path |-> activeJournal.fileNumber + 1]
    ELSE [ws |-> ws, path |-> activeJournal.fileNumber]

\* The result: the workspace afterwards and the returned path (file number).
RotateJournalIfNeeded(dev, ws) ==
    LET activeJournal == GetActiveJournal(dev, ws) IN
    IF activeJournal = Null
    THEN [ws |-> CreateJournalFile(ws, 1), path |-> 1]
    ELSE IF NeedsRotation(activeJournal.lineCount)
    THEN [ws   |-> CreateJournalFile(ws, activeJournal.fileNumber + 1),
          path |-> activeJournal.fileNumber + 1]
    ELSE [ws |-> ws, path |-> activeJournal.fileNumber]

Section(text) == IF text # <<>> THEN <<Txt(2)>> \o text \o <<Txt(1)>> ELSE <<>>

GenerateSessionContent(sessionNumber, session) ==
    <<Hdr(sessionNumber)>> \o Tail(session.title) \o <<Txt(2)>>
      \o (IF session.commit THEN <<Txt(1)>> ELSE <<>>)
      \o <<Txt(1)>>
      \o Section(session.summary)
      \o Section(session.content)
      \o <<Txt(2)>>

\* fs.appendFileSync creates the file when it is missing.
AppendFile(ws, n, content) ==
    [m \in DOMAIN ws \cup {n} |->
        IF m = n THEN (IF n \in DOMAIN ws THEN ws[n] ELSE <<>>) \o content
        ELSE ws[m]]

NextSessionNumber(ws) == GetTotalSessionCount(ws) + 1

\* addSession, run to completion by one process.
AddSession(session) ==
    /\ nCalls < MaxCalls
    /\ \A p \in Procs : proc[p].pc = "idle"
    /\ IF GetDeveloper = Null
       THEN /\ Done("addSession", session, Throws("Developer not initialized"))
            /\ UNCHANGED workspace
       ELSE LET r == RotateJournalIfNeeded(GetDeveloper, Ws)
                sessionNumber == NextSessionNumber(r.ws)
                content == GenerateSessionContent(sessionNumber, session)
            IN  /\ workspace' = [workspace EXCEPT
                                    ![developer] = AppendFile(r.ws, r.path, content)]
                /\ Done("addSession", session, sessionNumber)
    /\ UNCHANGED <<contextFiles, agents, developer, proc, taskVars, wtVars>>

RotateJournalIfNeededOp ==
    /\ nCalls < MaxCalls
    /\ IF GetDeveloper = Null
       THEN /\ Done("rotateJournalIfNeeded", Null, Throws("Developer not initialized"))
            /\ UNCHANGED workspace
       ELSE LET r == RotateJournalIfNeeded(GetDeveloper, Ws)
            IN  /\ workspace' = [workspace EXCEPT ![developer] = r.ws]
                /\ Done("rotateJournalIfNeeded", Null, [path |-> r.path])
    /\ UNCHANGED <<contextFiles, agents, developer, proc, taskVars, wtVars>>

CreateJournalFileOp(dev, fileNumber) ==
    /\ nCalls < MaxCalls
    /\ workspace' = [workspace EXCEPT ![dev] = CreateJournalFile(@, fileNumber)]
    /\ Done("createJournalFile", <<dev, fileNumber>>, [path |-> fileNumber])
    /\ UNCHANGED <<contextFiles, agents, developer, proc, taskVars, wtVars>>

GetJournalFilesOp(dev) ==
    /\ nCalls < MaxCalls
    /\ Done("getJournalFiles", dev, GetJournalFiles(WsOf(dev)))
    /\ UNCHANGED <<contextFiles, agents, developer, workspace, proc, taskVars, wtVars>>

GetActiveJournalOp ==
    /\ nCalls < MaxCalls
    /\ Done("getActiveJournal", Null, GetActiveJournal(GetDeveloper, Ws))
    /\ UNCHANGED <<contextFiles, agents, developer, workspace, proc, taskVars, wtVars>>

GetJournalStatus ==
    LET journal == GetActiveJournal(GetDeveloper, Ws) IN
    IF journal = Null
    THEN [ active |-> FALSE, fileNumber |-> 0, lineCount |-> 0,
           maxLines |-> MAX_JOURNAL_LINES, totalSessions |-> 0 ]
    ELSE [ active |-> TRUE, fileNumber |-> journal.fileNumber,
           lineCount |-> journal.lineCount, maxLines |-> MAX_JOURNAL_LINES,
           totalSessions |-> journal.sessionCount ]

GetJournalStatusOp ==
    /\ nCalls < MaxCalls
    /\ Done("getJournalStatus", Null, GetJournalStatus)
    /\ UNCHANGED <<contextFiles, agents, developer, workspace, proc, taskVars, wtVars>>

\* initDeveloper writes .developer and creates journal-1.md unless it exists.
InitDeveloper(name) ==
    /\ nCalls < MaxCalls
    /\ developer' = name
    /\ workspace' = [workspace EXCEPT ![name] =
                        IF 1 \in DOMAIN @ THEN @ ELSE CreateJournalFile(@, 1)]
    /\ Done("initDeveloper", name, Null)
    /\ UNCHANGED <<contextFiles, agents, proc, taskVars, wtVars>>

IdleProc ==
    [pc |-> "idle", session |-> PlainSession, path |-> 0, num |-> 0,
     dev |-> NoDeveloper, owner |-> NoDeveloper]

InFlight == {p \in Procs : proc[p].pc # "idle"}

\* addSession in its own OS process: the rotate, count and append steps of
\* two processes interleave, nothing on disk serialises them.  dev is the
\* developer addSession read at its start, owner the developer in whose
\* workspace directory the path that rotateJournalIfNeeded returned lies.
ProcRotate(p, session) ==
    /\ nCalls + Cardinality(InFlight) < MaxCalls
    /\ developer # NoDeveloper
    /\ proc[p].pc = "idle"
    /\ LET r == RotateJournalIfNeeded(GetDeveloper, Ws)
       IN  /\ workspace' = [workspace EXCEPT ![developer] = r.ws]
           /\ proc' = [proc EXCEPT ![p] = [pc |-> "rotated", session |-> session,
                                           path |-> r.path, num |-> 0,
                                           dev |-> developer, owner |-> developer]]
    /\ UNCHANGED <<contextFiles, agents, developer, lastOp, nCalls, taskVars, wtVars>>

\* The first statement of addSession alone: getDeveloper(root).
ProcStart(p, session) ==
    /\ nCalls + Cardinality(InFlight) < MaxCalls
    /\ developer # NoDeveloper
    /\ proc[p].pc = "idle"
    /\ proc' = [proc EXCEPT ![p] = [pc |-> "started", session |-> session,
                                    path |-> 0, num |-> 0,
                                    dev |-> developer, owner |-> NoDeveloper]]
    /\ UNCHANGED <<contextFiles, agents, developer, workspace, lastOp, nCalls, taskVars,
                   wtVars>>

\* getTotalSessionCount(developer, root) is given the developer that
\* addSession read at its start.
HeldDeveloper(p) == proc[p].dev

\* rotateJournalIfNeeded(root), which reads the developer file by itself.
ProcRotateStarted(p) ==
    /\ proc[p].pc = "started"
    /\ LET r == RotateJournalIfNeeded(GetDeveloper, Ws)
       IN  /\ workspace' = [workspace EXCEPT ![developer] = r.ws]
           /\ proc' = [proc EXCEPT ![p].pc = "rotated", ![p].path = r.path,
                                   ![p].owner = developer]
    /\ UNCHANGED <<contextFiles, agents, developer, lastOp, nCalls, taskVars, wtVars>>

ProcCount(p) ==
    /\ proc[p].pc = "rotated"
    /\ proc' = [proc EXCEPT ![p].pc = "counted",
                            ![p].num = NextSessionNumber(WsOf(HeldDeveloper(p)))]
    /\ UNCHANGED <<contextFiles, agents, developer, workspace, lastOp, nCalls, taskVars, wtVars>>

ProcAppend(p) ==
    /\ proc[p].pc = "counted"
    /\ LET content == GenerateSessionContent(proc[p].num, proc[p].session)
       IN  workspace' = [workspace EXCEPT
                            ![proc[p].owner] = AppendFile(@, proc[p].path, content)]
    /\ Done("addSession", proc[p].session, proc[p].num)
    /\ proc' = [proc EXCEPT ![p] = IdleProc]
    /\ UNCHANGED <<contextFiles, agents, developer, taskVars, wtVars>>

(***************************************************************************)
(* Task store (core/task/crud.ts).  A name (directory name, slug, query)   *)
(* is the sequence of its "-"-separated pieces; the date prefix <MM-DD>    *)
(* is one piece.                                                           *)
(***************************************************************************)

NoPointer == <<>>
Days == {1, 2}

Invalid == [invalid |-> TRUE]

DatePrefix(day) == IF day = 1 THEN "01-01" ELSE "01-02"
DateString(day) == IF day = 1 THEN "2026-01-01" ELSE "2026-01-02"
YearMonth(day) == "2026-01"

Titles == {"Fix", "Fix!", "Fix login", "Login", "!!!"}

Slugify(title) ==
    CASE title = "Fix"       -> <<"fix">>
      [] title = "Fix!"      -> <<"fix">>
      [] title = "Fix login" -> <<"fix", "login">>
      [] title = "Login"     -> <<"login">>
      [] OTHER               -> <<>>

\* s.endsWith("-" + q)
EndsWithDash(name, q) ==
    /\ q # <<>>
    /\ Len(q) < Len(name)
    /\ SubSeq(name, Len(name) - Len(q) + 1, Len(name)) = q

\* s.includes(part)
Includes(name, part) ==
    \E i \in 0..(Len(name) - Len(part)) : SubSeq(name, i + 1, i + Len(part)) = part

\* Faulty variant: the parsed JSON is returned without the schema check.
ReadTaskUnchecked(store, taskDir) ==
    IF taskDir \notin DOMAIN store THEN Null ELSE store[taskDir]

ReadTask(store, taskDir) ==
    IF taskDir \notin DOMAIN store THEN Null
    ELSE IF store[taskDir] = Invalid THEN Null
    ELSE store[taskDir]

\* The keys of a task in the order JSON.stringify emits them: the order of
\* the literal in createTask, which the spreads in updateTask keep.
TaskKeys ==
    << "id", "name", "title", "status", "dev_type", "priority", "creator",
       "assignee", "createdAt", "completedAt", "worktree_path", "current_phase",
       "notes" >>

\* JSON.stringify(task, null, 2) + "\n": an opening brace, one line per
\* own key of the object, a closing brace.
Stringify(task) ==
    LET keys == SelectSeq(TaskKeys, LAMBDA k : k \in DOMAIN task) IN
    [ open    |-> "{",
      members |-> [i \in DOMAIN keys |-> [key |-> keys[i], val |-> task[keys[i]]]],
      close   |-> "}" ]

\* JSON.parse of such a text: the object with the keys of the member lines.
JsonParse(text) ==
    [k \in {text.members[i].key : i \in DOMAIN text.members} |->
        text.members[CHOOSE i \in DOMAIN text.members : text.members[i].key = k].val]

\* Faulty variant: the file is opened with the "wx" flag, so a task.json
\* that is there already is left as it is.
WriteTaskIfAbsent(store, taskDir, task) ==
    IF taskDir \in DOMAIN store THEN store
    ELSE With(store, taskDir, JsonParse(Stringify(task)))

\* writeTask.  The store keeps the content of a file as the value
\* JSON.parse gives for it.
WriteTask(store, taskDir, task) == With(store, taskDir, JsonParse(Stringify(task)))

\* Faulty variant: the record starts out in its first phase, in progress.
NewTaskStarted(slug, title, creator, assignee, day) ==
    [ id            |-> slug,
      name          |-> slug,
      title         |-> title,
      status        |-> "in_progress",
      dev_type      |-> "null",
      priority      |-> "P2",
      creator       |-> creator,
      assignee      |-> assignee,
      createdAt     |-> DateString(day),
      completedAt   |-> "null",
      worktree_path |-> "null",
      current_phase |-> 1,
      notes         |-> "" ]

NewTask(slug, title, creator, assignee, day) ==
    [ id            |-> slug,
      name          |-> slug,
      title         |-> title,
      status        |-> "planning",
      dev_type      |-> "null",
      priority      |-> "P2",
      creator       |-> creator,
      assignee      |-> assignee,
      createdAt     |-> DateString(day),
      completedAt   |-> "null",
      worktree_path |-> "null",
      current_phase |-> 0,
      notes         |-> "" ]

CreateTaskOptions == {[assignee |-> ""]}

\* Faulty variant: options.slug || slugify(title), an empty slug passed by
\* the caller gives way to the slug of the title.
SlugOrTitle(title, options) ==
    IF "slug" \in DOMAIN options /\ options.slug # <<>> THEN options.slug
    ELSE Slugify(title)

\* options.slug ?? slugify(title): a slug the caller passes, the empty
\* string included, is taken as it is.
SlugOf(title, options) ==
    IF "slug" \in DOMAIN options THEN options.slug ELSE Slugify(title)

\* createTask; pos is where readdir lists a directory that mkdir creates.
CreateTask(title, options, pos) ==
    /\ nCalls < MaxCalls
    /\ LET assignee == IF options.assignee # "" THEN options.assignee
                       ELSE developer
           creator  == IF GetDeveloper # Null THEN developer ELSE assignee
           slug     == SlugOf(title, options)
           dirName  == <<DatePrefix(today)>> \o slug
           exists   == dirName \in DOMAIN tasks
       IN  IF options.assignee = "" /\ GetDeveloper = Null
           THEN /\ Done("createTask", <<title, options>>, Throws("No developer set"))
                /\ UNCHANGED <<tasks, dirOrder>>
           ELSE IF slug = <<>>
           THEN /\ Done("createTask", <<title, options>>,
                        Throws("Could not generate slug from title"))
                /\ UNCHANGED <<tasks, dirOrder>>
           ELSE /\ pos \in 0..Len(dirOrder)
                /\ exists => pos = 0
                /\ dirOrder' = IF exists THEN dirOrder
                               ELSE InsertAt(dirOrder, pos, dirName)
                /\ tasks' = WriteTask(tasks, dirName,
                                      NewTask(slug, title, creator, assignee, today))
                /\ Done("createTask", <<title, options>>,
                        [path |-> dirName, warned |-> exists])
    /\ UNCHANGED <<contextFiles, agents, journalVars, wtVars, today, archive, currentTask>>

Matches(entryName, task, nameOrSlug) ==
    \/ entryName = nameOrSlug
    \/ EndsWithDash(entryName, nameOrSlug)
    \/ task.id = nameOrSlug
    \/ task.name = nameOrSlug

RECURSIVE FindIn(_, _, _)
FindIn(store, entries, nameOrSlug) ==
    IF entries = <<>> THEN Null
    ELSE LET task == ReadTask(store, Head(entries)) IN
         IF task # Null /\ Matches(Head(entries), task, nameOrSlug)
         THEN [task |-> task, dir |-> Head(entries)]
         ELSE FindIn(store, Tail(entries), nameOrSlug)

FindTask(nameOrSlug) == FindIn(tasks, dirOrder, nameOrSlug)

RECURSIVE ListIn(_, _, _, _)
ListIn(store, entries, pointer, options) ==
    IF entries = <<>> THEN <<>>
    ELSE LET task == ReadTask(store, Head(entries))
             rest == ListIn(store, Tail(entries), pointer, options)
         IN  IF task = Null THEN rest
             ELSE IF options.mine /\ task.assignee # developer THEN rest
             ELSE IF options.status # "" /\ task.status # options.status THEN rest
             ELSE <<[ task |-> task, dirName |-> Head(entries),
                      isCurrent |-> (Head(entries) = pointer) ]>> \o rest

ListTasks(options) == ListIn(tasks, dirOrder, currentTask, options)

NoFilter == [mine |-> FALSE, status |-> ""]

\* Faulty variant: the spread is written the other way round, { ...updates, ...task }.
MergeTaskFirst(task, updates) ==
    [f \in DOMAIN task \cup DOMAIN updates |->
        IF f \in DOMAIN task THEN task[f] ELSE updates[f]]

\* { ...task, ...updates }
Merge(task, updates) ==
    [f \in DOMAIN task \cup DOMAIN updates |->
        IF f \in DOMAIN updates THEN updates[f] ELSE task[f]]

\* The result: the store afterwards and the returned record (or Null).
UpdateTask(store, taskDir, updates) ==
    LET task == ReadTask(store, taskDir) IN
    IF task = Null THEN [store |-> store, ret |-> Null]
    ELSE [ store |-> WriteTask(store, taskDir, Merge(task, updates)),
           ret   |-> Merge(task, updates) ]

UpdateInputs ==
    { [status |-> "in_progress"],
      [current_phase |-> 1],
      [dev_type |-> "backend", notes |-> "n" ] }

UpdateTaskOp(taskDir, updates) ==
    /\ nCalls < MaxCalls
    /\ LET r == UpdateTask(tasks, taskDir, updates)
       IN  /\ tasks' = r.store
           /\ Done("updateTask", <<taskDir, updates>>, r.ret)
    /\ UNCHANGED <<contextFiles, agents, journalVars, wtVars, today, dirOrder, archive, currentTask>>

\* The manifest files of a task directory are kept under <<"tasks", name>>
\* while it is active and under <<year-month, name>> once it is archived.
CtxKey(dirName) == <<"tasks", dirName>>

\* fs.renameSync of the directory takes the files in it along.
MoveDir(files, dirName, target) ==
    IF CtxKey(dirName) \in DOMAIN files
    THEN With(Without(files, CtxKey(dirName)), target, files[CtxKey(dirName)])
    ELSE files

\* Faulty variant: the completion date is left out of the update.
ArchiveUpdatesNoDate(day) == [status |-> "completed"]

ArchiveUpdates(day) == [status |-> "completed", completedAt |-> DateString(day)]

\* Faulty variant: the pointer (a relative path) is compared with the absolute
\* directory path, which it never equals.
ClearsPointerNever(pointer, dirName) == FALSE

ClearsPointer(pointer, dirName) ==
    pointer # NoPointer /\ Includes(pointer, dirName)

\* Faulty variant: the rename replaces a directory that is in its way.
RenameReplaces(store, target) == FALSE

\* fs.renameSync onto an existing directory that is not empty raises; an
\* archived directory always holds its task.json.
RenameRaises(store, target) == target \in DOMAIN store

\* archiveTask.  stop = "no": the call runs to its end; "updated",
\* "cleared": the process is interrupted after the status update, or after
\* the pointer has been cleared as well, and the relocation never happens.
ArchiveTask(nameOrSlug, stop) ==
    /\ nCalls < MaxCalls
    /\ LET found == FindTask(nameOrSlug) IN
       IF found = Null
       THEN /\ stop = "no"
            /\ Done("archiveTask", nameOrSlug, Null)
            /\ UNCHANGED <<tasks, dirOrder, archive, currentTask, contextFiles>>
       ELSE LET dirName  == found.dir
                updated  == UpdateTask(tasks, dirName, ArchiveUpdates(today)).store
                clears   == ClearsPointer(currentTask, dirName)
                target   == <<YearMonth(today), dirName>>
            IN  /\ currentTask' = IF clears /\ stop # "updated"
                                  THEN NoPointer ELSE currentTask
                /\ IF stop # "no"
                   THEN /\ tasks' = updated
                        /\ UNCHANGED <<dirOrder, archive, contextFiles>>
                        /\ Done("archiveTask", nameOrSlug,
                                [interrupted |-> stop, dir |-> dirName])
                   ELSE IF RenameRaises(archive, target)
                   THEN
                        /\ tasks' = updated
                        /\ UNCHANGED <<dirOrder, archive, contextFiles>>
                        /\ Done("archiveTask", nameOrSlug, Throws("ENOTEMPTY"))
                   ELSE /\ tasks' = Without(updated, dirName)
                        /\ dirOrder' = Remove(dirOrder, dirName)
                        /\ archive' = With(archive, target, updated[dirName])
                        /\ contextFiles' = MoveDir(contextFiles, dirName, target)
                        /\ Done("archiveTask", nameOrSlug,
                                [path |-> target, cleared |-> clears])
    /\ UNCHANGED <<agents, journalVars, wtVars, today>>

\* The pointer is set to an active task directory when work on it starts.
SetCurrentTask(dirName) ==
    /\ nCalls < MaxCalls
    /\ dirName \in DOMAIN tasks
    /\ currentTask' = dirName
    /\ Done("setCurrentTask", dirName, Null)
    /\ UNCHANGED <<contextFiles, agents, journalVars, wtVars, today, tasks, dirOrder, archive>>

NextDay ==
    /\ today + 1 \in Days
    /\ today' = today + 1
    /\ UNCHANGED <<contextFiles, agents, journalVars, wtVars, tasks, dirOrder, archive, currentTask, lastOp, nCalls>>

Queries == {<<"fix">>, <<"login">>, <<"01-01", "fix">>}

(***************************************************************************)
(* Context manifests (core/task/context.ts, core/platforms/claude).  A     *)
(* manifest file is the sequence of its lines; a line is an entry record   *)
(* or a line that does not parse.                                          *)
(***************************************************************************)

DevTypes == {"backend", "frontend", "fullstack", "test"}

Entry(file, reason) == [file |-> file, reason |-> reason]

GetImplementBase ==
    << Entry("WORKFLOW/workflow.md", "Project workflow and conventions"),
       Entry("SPEC/shared/index.md", "Shared coding standards") >>

GetImplementBackend ==
    << Entry("SPEC/backend/index.md", "Backend development guide"),
       Entry("SPEC/backend/api-module.md", "API module conventions"),
       Entry("SPEC/backend/quality.md", "Code quality requirements") >>

GetImplementFrontend ==
    << Entry("SPEC/frontend/index.md", "Frontend development guide"),
       Entry("SPEC/frontend/components.md", "Component conventions") >>

BackendCheck == Entry(".claude/commands/trellis/check-backend.md", "Backend check spec")
FrontendCheck == Entry(".claude/commands/trellis/check-frontend.md", "Frontend check spec")

\* Faulty variant: both check entries are pushed whatever the dev_type.
GetCheckContextAll(devType) ==
    << Entry(".claude/commands/trellis/finish-work.md", "Finish work checklist"),
       Entry("SPEC/shared/index.md", "Shared coding standards"),
       BackendCheck, FrontendCheck >>

GetCheckContext(devType) ==
    << Entry(".claude/commands/trellis/finish-work.md", "Finish work checklist"),
       Entry("SPEC/shared/index.md", "Shared coding standards") >>
      \o (IF devType \in {"backend", "fullstack"} THEN <<BackendCheck>> ELSE <<>>)
      \o (IF devType \in {"frontend", "fullstack"} THEN <<FrontendCheck>> ELSE <<>>)

GetDebugContext(devType) ==
    << Entry("SPEC/shared/index.md", "Shared coding standards") >>
      \o (IF devType \in {"backend", "fullstack"} THEN <<BackendCheck>> ELSE <<>>)
      \o (IF devType \in {"frontend", "fullstack"} THEN <<FrontendCheck>> ELSE <<>>)

\* Faulty variant: "test" falls through the switch and gets the base alone.
ImplementEntriesNoTest(devType) ==
    GetImplementBase
      \o (CASE devType = "backend"   -> GetImplementBackend
            [] devType = "frontend"  -> GetImplementFrontend
            [] devType = "fullstack" -> GetImplementBackend \o GetImplementFrontend
            [] OTHER                 -> <<>>)

ImplementEntries(devType) ==
    GetImplementBase
      \o (CASE devType \in {"backend", "test"} -> GetImplementBackend
            [] devType = "frontend"           -> GetImplementFrontend
            [] devType = "fullstack"          -> GetImplementBackend \o GetImplementFrontend
            [] OTHER                          -> <<>>)

\* Faulty variant: the entries are appended to what the file holds.
AppendJsonl(old, entries) == old \o entries

\* writeJsonl: fs.writeFileSync puts the entries in place of what the file
\* held (old), one line per entry.
WriteJsonl(old, entries) == entries

\* The files of a task directory, and the lines of one of them.
FilesOf(files, taskDir) ==
    IF CtxKey(taskDir) \in DOMAIN files THEN files[CtxKey(taskDir)] ELSE <<>>

LinesOf(dir, name) == IF name \in DOMAIN dir THEN dir[name] ELSE <<>>

\* Faulty variant: fs.appendFileSync in place of fs.writeFileSync.
AppendToFile(dir, name, entries) ==
    With(dir, name, LinesOf(dir, name) \o entries)

WriteFile(dir, name, entries) ==
    With(dir, name, WriteJsonl(LinesOf(dir, name), entries))

\* generateContextFiles: the three files are written anew; other files of
\* the directory are left alone.
GenerateContextFiles(files, taskDir, devType) ==
    With(files, CtxKey(taskDir),
         WriteFile(WriteFile(WriteFile(FilesOf(files, taskDir),
                                       "implement", ImplementEntries(devType)),
                             "check", GetCheckContext(devType)),
                   "debug", GetDebugContext(devType)))

\* The adapter called directly on a task directory.
GenerateContextFilesOp(taskDir, devType) ==
    /\ nCalls < MaxCalls
    /\ IF taskDir \in DOMAIN tasks
       THEN /\ contextFiles' = GenerateContextFiles(contextFiles, taskDir, devType)
            /\ Done("generateContextFiles", <<taskDir, devType>>, Null)
       ELSE /\ UNCHANGED contextFiles
            /\ Done("generateContextFiles", <<taskDir, devType>>, Throws("ENOENT"))
    /\ UNCHANGED <<agents, journalVars, taskVars, wtVars>>

\* Lines of a manifest file that are no entry: text that is not JSON, an
\* empty line, a JSON object without the file key.
NotJson == [notjson |-> TRUE]
Blank == [blank |-> TRUE]
NoFileKey == [reason |-> "Shared coding standards"]

\* ContextEntrySchema.safeParse succeeds: file and reason are there.
EntryOk(line) == {"file", "reason"} \subseteq DOMAIN line

\* The lines readJsonl keeps.
KeptLine(line) == line # Blank /\ line # NotJson /\ EntryOk(line) /\ line.file # ""

ReadJsonl(files, taskDir, name) ==
    IF CtxKey(taskDir) \notin DOMAIN files THEN <<>>
    ELSE IF name \notin DOMAIN files[CtxKey(taskDir)] THEN <<>>
    ELSE SelectSeq(files[CtxKey(taskDir)][name], KeptLine)

ReadJsonlOp(taskDir, name) ==
    /\ nCalls < MaxCalls
    /\ Done("readJsonl", <<taskDir, name>>, ReadJsonl(contextFiles, taskDir, name))
    /\ UNCHANGED <<contextFiles, agents, journalVars, taskVars, wtVars>>

\* What probing the repository for a platform gives: the Claude
\* configuration directory, or nothing, in which case the lookup raises.
Detected == {"claude", "none"}

\* Faulty variant: a failed lookup is not caught.
AdapterStrict(detected) == detected

\* try { getPlatformAdapter(root) } catch { claudeAdapter }
AdapterFor(detected) == IF detected = "none" THEN "claude" ELSE detected

\* initContext.  Writing into a directory that does not exist raises.
InitContext(taskDir, devType, detected) ==
    /\ nCalls < MaxCalls
    /\ LET task == ReadTask(tasks, taskDir) IN
       /\ tasks' = IF task # Null
                   THEN WriteTask(tasks, taskDir, Merge(task, [dev_type |-> devType]))
                   ELSE tasks
       /\ IF AdapterFor(detected) = "none"
          THEN /\ UNCHANGED contextFiles
               /\ Done("initContext", <<taskDir, devType, detected>>,
                       Throws("No platform detected"))
          ELSE IF taskDir \in DOMAIN tasks
          THEN /\ contextFiles' = GenerateContextFiles(contextFiles, taskDir, devType)
               /\ Done("initContext", <<taskDir, devType, detected>>, Null)
          ELSE /\ UNCHANGED contextFiles
               /\ Done("initContext", <<taskDir, devType, detected>>, Throws("ENOENT"))
    /\ UNCHANGED <<agents, journalVars, wtVars, today, dirOrder, archive, currentTask>>

\* jsonlName with ".jsonl" appended unless it ends so: the file meant.
JsonlFileName(jsonlName) ==
    CASE jsonlName = "implement.jsonl" -> "implement"
      [] jsonlName = "check.jsonl"     -> "check"
      [] jsonlName = "debug.jsonl"     -> "debug"
      [] OTHER                         -> jsonlName

\* What addContext is pointed at: a path below the repository root, what
\* is found there, and whether the path ends in a slash.
AddTargets ==
    { [path |-> "README.md", kind |-> "file", slash |-> FALSE],
      [path |-> "SPEC/shared/index.md", kind |-> "file", slash |-> FALSE],
      [path |-> "src/api", kind |-> "directory", slash |-> FALSE],
      [path |-> "nowhere.md", kind |-> "missing", slash |-> FALSE] }

\* Faulty variant: the path is recorded as the caller wrote it.
EntryPathAsGiven(target) == target.path

\* filePath after the existence check: a directory gets its trailing slash.
EntryPath(target) ==
    IF target.kind = "directory" /\ ~target.slash
    THEN target.path \o "/" ELSE target.path

\* addContext
AddContext(taskDir, jsonlName, target, reason) ==
    /\ nCalls < MaxCalls
    /\ LET name     == JsonlFileName(jsonlName)
           filePath == EntryPath(target)
           existing == ReadJsonl(contextFiles, taskDir, name)
           entry    == IF target.kind = "directory"
                       THEN [file |-> filePath, type |-> "directory", reason |-> reason]
                       ELSE Entry(filePath, reason)
           dir      == FilesOf(contextFiles, taskDir)
       IN  IF target.kind = "missing"
           THEN /\ UNCHANGED contextFiles
                /\ Done("addContext", <<taskDir, jsonlName, target>>,
                        Throws("Path not found"))
           ELSE IF \E i \in DOMAIN existing : existing[i].file = filePath
           THEN /\ UNCHANGED contextFiles
                /\ Done("addContext", <<taskDir, jsonlName, target>>, [warned |-> TRUE])
           ELSE IF taskDir \notin DOMAIN tasks
           THEN /\ UNCHANGED contextFiles
                /\ Done("addContext", <<taskDir, jsonlName, target>>, Throws("ENOENT"))
           ELSE /\ contextFiles' =
                       With(contextFiles, CtxKey(taskDir),
                            With(dir, name, Append(LinesOf(dir, name), entry)))
                /\ Done("addContext", <<taskDir, jsonlName, target>>, Null)
    /\ UNCHANGED <<agents, journalVars, taskVars, wtVars>>

\* A task.json written by the shell tooling (create-bootstrap.sh): it
\* lacks fields the schema requires, so TaskSchema.safeParse fails on it.
ShellWrite(dirName, pos) ==
    /\ nCalls < MaxCalls
    /\ pos \in 0..Len(dirOrder)
    /\ dirName \in DOMAIN tasks => pos = 0
    /\ dirOrder' = IF dirName \in DOMAIN tasks THEN dirOrder
                   ELSE InsertAt(dirOrder, pos, dirName)
    /\ tasks' = With(tasks, dirName, Invalid)
    /\ Done("shellWrite", dirName, Null)
    /\ UNCHANGED <<contextFiles, agents, journalVars, wtVars, today, archive, currentTask>>

\* writeTask called on its own.  The directory must be there.
WriteTaskOp(taskDir, task) ==
    /\ nCalls < MaxCalls
    /\ IF taskDir \in DOMAIN tasks
       THEN /\ tasks' = WriteTask(tasks, taskDir, task)
            /\ Done("writeTask", <<taskDir, task>>, Null)
       ELSE /\ UNCHANGED tasks
            /\ Done("writeTask", <<taskDir, task>>, Throws("ENOENT"))
    /\ UNCHANGED <<contextFiles, agents, journalVars, wtVars, today, dirOrder, archive,
                   currentTask>>

ReadTaskOp(taskDir) ==
    /\ nCalls < MaxCalls
    /\ Done("readTask", taskDir, ReadTask(tasks, taskDir))
    /\ UNCHANGED <<contextFiles, agents, journalVars, wtVars, taskVars>>

FindTaskOp(nameOrSlug) ==
    /\ nCalls < MaxCalls
    /\ Done("findTask", nameOrSlug, FindTask(nameOrSlug))
    /\ UNCHANGED <<contextFiles, agents, journalVars, wtVars, taskVars>>

ListTasksOp(options) ==
    /\ nCalls < MaxCalls
    /\ Done("listTasks", options, ListTasks(options))
    /\ UNCHANGED <<contextFiles, agents, journalVars, wtVars, taskVars>>

Perms(S) == {f \in [1..Cardinality(S) -> S] : Range(f) = S}

\* listArchivedTasks: the archived directories of one month, or of all
\* months when month is empty, in the order readdir gives them.
ArchivedIn(store, month) ==
    { [dirName |-> t[2], month |-> t[1]] :
        t \in {u \in DOMAIN store : month = "" \/ u[1] = month} }

ListArchivedTasksOp(month, results) ==
    /\ nCalls < MaxCalls
    /\ results \in Perms(ArchivedIn(archive, month))
    /\ Done("listArchivedTasks", month, results)
    /\ UNCHANGED <<contextFiles, agents, journalVars, wtVars, taskVars>>

\* updateTask and initContext in their own OS process: each reads task.json,
\* merges in memory and writes the whole file back; nothing on disk
\* serialises the steps of two processes.  A slot keeps its last call.
TaskCalls ==
    {[op |-> "updateTask", updates |-> u] : u \in UpdateInputs}
      \cup {[op |-> "initContext", updates |-> [dev_type |-> "frontend"]]}

ProcReadTask(p, taskDir, call) ==
    /\ nCalls + Cardinality(InFlight) < MaxCalls
    /\ proc[p].pc = "idle"
    /\ LET task == ReadTask(tasks, taskDir) IN
       IF task = Null /\ call.op = "updateTask"
       THEN /\ Done("updateTask", <<taskDir, call.updates>>, Null)
            /\ UNCHANGED proc
       ELSE /\ proc' = [proc EXCEPT ![p] =
                          [pc |-> IF task = Null THEN "written" ELSE "read",
                           op |-> call.op, taskDir |-> taskDir,
                           updates |-> call.updates, task |-> task]]
            /\ UNCHANGED <<lastOp, nCalls>>
    /\ UNCHANGED <<contextFiles, agents, developer, workspace, taskVars, wtVars>>

\* Faulty variant: the record is read again at the time of the write.
RereadTask(p) == ReadTask(tasks, proc[p].taskDir)

\* The record the call holds in memory since its read.
HeldTask(p) == proc[p].task

ProcWriteTask(p) ==
    /\ proc[p].pc = "read"
    /\ LET updatedTask == Merge(HeldTask(p), proc[p].updates) IN
       /\ tasks' = WriteTask(tasks, proc[p].taskDir, updatedTask)
       /\ IF proc[p].op = "updateTask"
          THEN /\ proc' = [proc EXCEPT ![p].pc = "idle"]
               /\ Done("updateTask", <<proc[p].taskDir, proc[p].updates>>, updatedTask)
          ELSE /\ proc' = [proc EXCEPT ![p].pc = "written"]
               /\ UNCHANGED <<lastOp, nCalls>>
    /\ UNCHANGED <<contextFiles, agents, developer, workspace, wtVars, today, dirOrder,
                   archive, currentTask>>

ProcGenerate(p) ==
    /\ proc[p].pc = "written"
    /\ IF proc[p].taskDir \in DOMAIN tasks
       THEN /\ contextFiles' = GenerateContextFiles(contextFiles, proc[p].taskDir,
                                                    proc[p].updates.dev_type)
            /\ Done("initContext", <<proc[p].taskDir, proc[p].updates.dev_type>>, Null)
       ELSE /\ UNCHANGED contextFiles
            /\ Done("initContext", <<proc[p].taskDir, proc[p].updates.dev_type>>,
                    Throws("ENOENT"))
    /\ proc' = [proc EXCEPT ![p].pc = "idle"]
    /\ UNCHANGED <<agents, developer, workspace, taskVars, wtVars>>

(***************************************************************************)
(* Agent processes (core/platforms/claude: launchAgent).  The pid of a     *)
(* spawned process is its index in agents; pid 0 stands for a spawn that   *)
(* gave no process.                                                        *)
(***************************************************************************)

NoPid == 0

LaunchOptions ==
    { [agentType |-> "plan", workDir |-> "/tmp/wt", agentFile |-> "",
       background |-> FALSE],
      [agentType |-> "plan", workDir |-> "/tmp/wt", agentFile |-> "",
       background |-> TRUE],
      [agentType |-> "dispatch", workDir |-> "/tmp/wt",
       agentFile |-> "agents/custom.md", background |-> FALSE],
      [agentType |-> "dispatch", workDir |-> "/tmp/wt",
       agentFile |-> "agents/custom.md", background |-> TRUE] }

AgentFile(options) ==
    IF options.agentFile # "" THEN options.agentFile
    ELSE ".claude/agents/" \o options.agentType \o ".md"

LogFile(options) == options.workDir \o "/.agent-log"

\* launchAgent.  Both branches start the process and return its pid and log
\* file without awaiting it; whether the process has ended by the time the
\* caller gets the result (exited) is the scheduler's choice.
LaunchAgent(options, spawnOk, exited) ==
    /\ nCalls < MaxCalls
    /\ ~spawnOk => exited
    /\ LET pid == Len(agents) + 1
           subprocess == [ args     |-> <<"--agent", AgentFile(options)>>,
                           cwd      |-> options.workDir,
                           detached |-> options.background,
                           logged   |-> options.background,
                           running  |-> ~exited ]
       IN  IF spawnOk
           THEN /\ agents' = Append(agents, subprocess)
                /\ Done("launchAgent", options,
                        [pid |-> pid, logFile |-> LogFile(options)])
           ELSE /\ UNCHANGED agents
                /\ Done("launchAgent", options,
                        [pid |-> NoPid, logFile |-> LogFile(options)])
    /\ UNCHANGED <<contextFiles, journalVars, taskVars, wtVars>>

\* The agent process ends on its own.
AgentExit(pid) ==
    /\ pid \in DOMAIN agents
    /\ agents[pid].running
    /\ agents' = [agents EXCEPT ![pid].running = FALSE]
    /\ UNCHANGED <<contextFiles, journalVars, taskVars, wtVars, lastOp, nCalls>>

\* A line of the agent's output: text that is not JSON, a JSON value that
\* is no object (null, a scalar, an array), or a JSON object, given by its
\* members.  The JSON value null is written "null".
JsonValue(kind) == [json |-> kind]
JsonObject(members) == [json |-> "object", members |-> members]

LogLines ==
    { NotJson,
      JsonValue("null"), JsonValue("scalar"), JsonValue("array"),
      JsonObject([type |-> "tool_use", name |-> "Bash"]),
      JsonObject([type |-> "tool_result", content |-> "ok"]),
      JsonObject([type |-> "text", text |-> "Done."]),
      JsonObject([type |-> "text"]),
      JsonObject([type |-> "error", message |-> "rate limited"]),
      JsonObject([type |-> "error", message |-> "null", code |-> "500"]),
      JsonObject([type |-> "error"]),
      JsonObject([type |-> "result", subtype |-> "success"]),
      JsonObject([type |-> "complete"]),
      JsonObject([text |-> "no type"]) }

\* Faulty variant: there is no catch block, the error leaves the function.
Rethrow(raised) == Throws(raised)

\* catch { return null }
Catch(raised) == Null

\* parsed[key] of a parsed object: undefined for a key it does not have.
Member(parsed, key) == IF key \in DOMAIN parsed THEN parsed[key] ELSE Undefined

\* parseAgentLog.  now is new Date().toISOString().
ParseAgentLog(line, now) ==
    IF line = NotJson THEN Catch("SyntaxError")
    ELSE IF line.json = "null" THEN Catch("TypeError")
    ELSE IF line.json # "object" THEN Null
    ELSE LET parsed == line.members IN
         IF "type" \notin DOMAIN parsed THEN Null
         ELSE IF parsed.type \in {"tool_use", "tool_result"}
         THEN [type |-> "tool_call", timestamp |-> now, content |-> parsed]
         ELSE IF parsed.type = "text"
         THEN [type |-> "message", timestamp |-> now,
               content |-> Member(parsed, "text")]
         ELSE IF parsed.type = "error"
         THEN [type |-> "error", timestamp |-> now,
               content |-> IF "message" \in DOMAIN parsed /\ parsed.message # "null"
                           THEN parsed.message ELSE parsed]
         ELSE Null

ParseAgentLogOp(line) ==
    /\ nCalls < MaxCalls
    /\ Done("parseAgentLog", line, ParseAgentLog(line, DateString(today)))
    /\ UNCHANGED <<contextFiles, agents, journalVars, taskVars, wtVars>>

(***************************************************************************)
(* Worktrees (core/git/worktree.ts).  What git, the file copy and the      *)
(* hooks answer is the environment's choice: gitOk, copyFails (the         *)
(* configured files whose copy raises) and hookFails (the hooks that exit  *)
(* non-zero).                                                              *)
(***************************************************************************)

WorktreeConfigs ==
    { DEFAULT_WORKTREE_CONFIG,
      [base_dir |-> "../.worktrees", copy_files |-> <<".env">>,
       post_create |-> <<"npm install", "npm run build">>],
      [base_dir |-> "wt", copy_files |-> <<>>, post_create |-> <<"npm install">>] }

\* worktree.yaml.  kind = "absent": no file; "garbage": text parseYaml raises
\* on; "scalar": YAML that is not a mapping; "map": a mapping, each key with
\* the type of its value and the value.
NoConfigFile == [kind |-> "absent"]
Garbage == [kind |-> "garbage"]
Scalar == [kind |-> "scalar"]

YamlMap(fields) == [kind |-> "map", fields |-> fields]

Str(v) == [type |-> "string", v |-> v]
Arr(v) == [type |-> "array", v |-> v]

\* The file that holds the three keys of a configuration.
YamlOf(config) ==
    YamlMap([base_dir    |-> Str(config.base_dir),
             copy_files  |-> Arr(config.copy_files),
             post_create |-> Arr(config.post_create)])

WorktreeConfigSchema ==
    [base_dir |-> "string", copy_files |-> "array", post_create |-> "array"]

\* Faulty variant: the type of a value is not looked at.
SchemaOkAlways(file) == file.kind = "map"

\* WorktreeConfigSchema.safeParse succeeds: a mapping whose known keys hold
\* values of their type (all three keys are optional).
SchemaOk(file) ==
    /\ file.kind = "map"
    /\ \A f \in DOMAIN file.fields \cap DOMAIN WorktreeConfigSchema :
          file.fields[f].type = WorktreeConfigSchema[f]

\* validated.data: the known keys and their values.
ValidatedData(file) ==
    [f \in DOMAIN file.fields \cap DOMAIN WorktreeConfigSchema |-> file.fields[f].v]

LoadWorktreeConfig(file) ==
    IF file.kind = "absent" THEN DEFAULT_WORKTREE_CONFIG
    ELSE IF file.kind = "garbage" THEN DEFAULT_WORKTREE_CONFIG
    ELSE IF SchemaOk(file) THEN Merge(DEFAULT_WORKTREE_CONFIG, ValidatedData(file))
    ELSE DEFAULT_WORKTREE_CONFIG

LoadWorktreeConfigOp ==
    /\ nCalls < MaxCalls
    /\ Done("loadWorktreeConfig", Null, LoadWorktreeConfig(wtConfig))
    /\ UNCHANGED <<contextFiles, agents, journalVars, taskVars, wtVars>>

\* What parseYaml reads back from a block sequence written as one "  - item"
\* line per item: no line at all, or the comment line that stands in for an
\* empty post_create, leaves the key without a value, which is null.
YamlNull == [type |-> "null", v |-> "null"]

YamlSeq(items) == IF items = <<>> THEN YamlNull ELSE Arr(items)

\* base_dir is written as a plain scalar: text that reads as a number comes
\* back as a number.
NumberLike == {"2024"}

YamlPlain(text) ==
    IF text \in NumberLike THEN [type |-> "number", v |-> text] ELSE Str(text)

\* config.key ?? fallback
OrElse(config, key, fallback) ==
    IF key \in DOMAIN config THEN config[key] ELSE fallback

\* saveWorktreeConfig: the text written, as parseYaml reads it.
SaveWorktreeConfig(config) ==
    YamlMap([base_dir    |-> YamlPlain(OrElse(config, "base_dir",
                                              DEFAULT_WORKTREE_CONFIG.base_dir)),
             copy_files  |-> YamlSeq(OrElse(config, "copy_files",
                                            DEFAULT_WORKTREE_CONFIG.copy_files)),
             post_create |-> YamlSeq(OrElse(config, "post_create", <<>>))])

SaveWorktreeConfigOp(config) ==
    /\ nCalls < MaxCalls
    /\ wtConfig' = SaveWorktreeConfig(config)
    /\ Done("saveWorktreeConfig", config, Null)
    /\ UNCHANGED <<contextFiles, agents, journalVars, taskVars, mainFiles, worktrees,
                   wtEvents>>

\* The configurations handed to saveWorktreeConfig.
SaveInputs ==
    WorktreeConfigs \cup
    { [base_dir |-> "wt", copy_files |-> <<".env">>, post_create |-> <<"npm install">>],
      [base_dir |-> "wt", copy_files |-> <<".env">>, post_create |-> <<>>],
      [base_dir |-> "2024", copy_files |-> <<".env">>, post_create |-> <<"npm install">>],
      [copy_files |-> <<".env.local">>, post_create |-> <<"npm run build">>] }

Branches == {"feat-a", "feat-b"}

TargetPath(config, branchName, worktreePath) ==
    IF worktreePath # "" THEN worktreePath
    ELSE config.base_dir \o "/" \o branchName

\* The copy loop: the files copied, in order, and whether a copy raised (the
\* loop has no handler, so the first failing copy ends it).
RECURSIVE CopyFiles(_, _, _)
CopyFiles(files, present, copyFails) ==
    IF files = <<>> THEN [events |-> <<>>, raised |-> FALSE]
    ELSE IF Head(files) \notin present
    THEN CopyFiles(Tail(files), present, copyFails)
    ELSE IF Head(files) \in copyFails
    THEN [events |-> <<[step |-> "copy-failed", what |-> Head(files)]>>,
          raised |-> TRUE]
    ELSE LET rest == CopyFiles(Tail(files), present, copyFails)
         IN  [events |-> <<[step |-> "copy", what |-> Head(files)]>> \o rest.events,
              raised |-> rest.raised]

\* The hook loop: every hook is run; one that fails is warned about.
RECURSIVE RunHooks(_, _)
RunHooks(hooks, hookFails) ==
    IF hooks = <<>> THEN <<>>
    ELSE (IF Head(hooks) \in hookFails
          THEN <<[step |-> "hook", what |-> Head(hooks)],
                 [step |-> "warn", what |-> Head(hooks)]>>
          ELSE <<[step |-> "hook", what |-> Head(hooks)]>>)
         \o RunHooks(Tail(hooks), hookFails)

Copied(events) ==
    {events[i].what : i \in {j \in DOMAIN events : events[j].step = "copy"}}

\* The output of "git worktree list --porcelain": a sequence of entries, an
\* entry the sequence of its lines, a line its keyword and what follows it.
\* A ref and a branch name are sequences of their "/"-separated pieces.
Line(key, val) == [key |-> key, val |-> val]

\* branchRef.replace("refs/heads/", ""): the first occurrence is cut out.
RECURSIVE StripRef(_)
StripRef(ref) ==
    IF Len(ref) < 2 THEN ref
    ELSE IF SubSeq(ref, 1, 2) = <<"refs", "heads">> THEN SubSeq(ref, 3, Len(ref))
    ELSE <<Head(ref)>> \o StripRef(Tail(ref))

RECURSIVE ParseLines(_, _)
ParseLines(lines, worktree) ==
    IF lines = <<>> THEN worktree
    ELSE LET line == Head(lines) IN
         ParseLines(Tail(lines),
            CASE line.key = "worktree" -> [worktree EXCEPT !.path = line.val]
              [] line.key = "HEAD"     -> [worktree EXCEPT !.head = line.val]
              [] line.key = "branch"   ->
                    [worktree EXCEPT !.branch = [name |-> StripRef(line.val)]]
              [] line.key = "bare"     -> [worktree EXCEPT !.isBare = TRUE]
              [] line.key = "detached" -> [worktree EXCEPT !.branch = Null]
              [] OTHER                 -> worktree)

ParseEntry(entry) ==
    ParseLines(entry, [path |-> "", head |-> "", branch |-> Undefined,
                       isMain |-> FALSE, isBare |-> FALSE])

\* Faulty variant: bare entries are returned as well.
PushedAny(worktree) == worktree.path # ""

Pushed(worktree) == worktree.path # "" /\ ~worktree.isBare

RECURSIVE ParseEntries(_)
ParseEntries(entries) ==
    IF entries = <<>> THEN <<>>
    ELSE LET worktree == ParseEntry(Head(entries)) IN
         (IF Pushed(worktree) THEN <<worktree>> ELSE <<>>)
            \o ParseEntries(Tail(entries))

ParseWorktreeOutput(output) ==
    LET parsed == ParseEntries(output) IN
    [i \in DOMAIN parsed |-> IF i = 1 THEN [parsed[i] EXCEPT !.isMain = TRUE]
                             ELSE parsed[i]]

PorcelainEntries ==
    { << Line("worktree", "/repo"), Line("HEAD", "abc"),
         Line("branch", <<"refs", "heads", "main">>) >>,
      << Line("worktree", "/repo.git"), Line("bare", "") >>,
      << Line("worktree", "/wt/a"), Line("HEAD", "def"), Line("detached", "") >>,
      << Line("worktree", "/wt/b"), Line("HEAD", "abc"),
         Line("branch", <<"refs", "heads", "feat", "refs", "heads">>),
         Line("locked", "") >> }

MaxEntries == 3

\* The listings git prints: every worktree once.
Listings ==
    UNION { {l \in [1..n -> PorcelainEntries] : \A i, j \in 1..n : l[i] = l[j] => i = j}
              : n \in 0..MaxEntries }

\* listWorktrees: a git failure gives the empty list.
ListWorktreesOp(stdout, gitOk) ==
    /\ nCalls < MaxCalls
    /\ Done("listWorktrees", [stdout |-> stdout, gitOk |-> gitOk],
            IF gitOk THEN ParseWorktreeOutput(stdout) ELSE <<>>)
    /\ UNCHANGED <<contextFiles, agents, journalVars, taskVars, wtVars>>

\* Faulty variant: a failing git command is swallowed.
ExecGitLenient(gitOk, gitArgs) ==
    [ events |-> <<[step |-> IF gitOk THEN "git" ELSE "git-failed", what |-> gitArgs]>>,
      raised |-> FALSE ]

\* await execa("git", args): a failing command rejects.
ExecGit(gitOk, gitArgs) ==
    [ events |-> <<[step |-> IF gitOk THEN "git" ELSE "git-failed", what |-> gitArgs]>>,
      raised |-> ~gitOk ]

CreateWorktree(branchName, worktreePath, baseBranch, gitOk, copyFails, hookFails) ==
    /\ nCalls < MaxCalls
    /\ LET config     == LoadWorktreeConfig(wtConfig)
           targetPath == TargetPath(config, branchName, worktreePath)
           arg        == <<branchName, worktreePath, baseBranch>>
           gitArgs    == IF baseBranch # ""
                         THEN <<"worktree", "add", "-b", branchName, targetPath, baseBranch>>
                         ELSE <<"worktree", "add", "-b", branchName, targetPath>>
           taken      == \/ targetPath \in DOMAIN worktrees
                         \/ \E w \in DOMAIN worktrees : worktrees[w].branch = branchName
           git        == ExecGit(gitOk, gitArgs)
           copy       == CopyFiles(config.copy_files, mainFiles, copyFails)
           hooks      == RunHooks(config.post_create, hookFails)
       IN  /\ taken => ~gitOk
           /\ copyFails \subseteq Range(config.copy_files) \cap mainFiles
           /\ hookFails \subseteq Range(config.post_create)
           /\ ~gitOk => copyFails = {} /\ hookFails = {}
           /\ IF git.raised
              THEN /\ wtEvents' = git.events
                   /\ UNCHANGED worktrees
                   /\ Done("createWorktree", arg, Throws("git worktree add"))
              ELSE IF copy.raised
              THEN /\ hookFails = {}
                   /\ wtEvents' = git.events \o copy.events
                   /\ worktrees' = With(worktrees, targetPath,
                                        [branch |-> branchName,
                                         files  |-> Copied(copy.events)])
                   /\ Done("createWorktree", arg, Throws("copyFileSync"))
              ELSE /\ wtEvents' = git.events \o copy.events \o hooks
                   /\ worktrees' = With(worktrees, targetPath,
                                        [branch |-> branchName,
                                         files  |-> Copied(copy.events)])
                   /\ Done("createWorktree", arg, [path |-> targetPath])
    /\ UNCHANGED <<contextFiles, agents, journalVars, taskVars, wtConfig, mainFiles>>

RemoveWorktree(worktreePath, force, gitOk) ==
    /\ nCalls < MaxCalls
    /\ worktreePath \notin DOMAIN worktrees => ~gitOk
    /\ LET gitArgs == IF force THEN <<"worktree", "remove", "--force", worktreePath>>
                      ELSE <<"worktree", "remove", worktreePath>>
           git     == ExecGit(gitOk, gitArgs)
       IN  /\ wtEvents' = git.events
           /\ IF git.raised
              THEN /\ UNCHANGED worktrees
                   /\ Done("removeWorktree", <<worktreePath, force>>,
                           Throws("git worktree remove"))
              ELSE /\ worktrees' = Without(worktrees, worktreePath)
                   /\ Done("removeWorktree", <<worktreePath, force>>, Null)
    /\ UNCHANGED <<contextFiles, agents, journalVars, taskVars, wtConfig, mainFiles>>

(***************************************************************************)
(* Specifications                                                          *)
(***************************************************************************)

InitTaskStore ==
    /\ contextFiles = <<>>
    /\ agents = <<>>
    /\ today = 1
    /\ tasks = <<>>
    /\ dirOrder = <<>>
    /\ archive = <<>>
    /\ currentTask = NoPointer

InitNoWorktrees ==
    /\ wtConfig = NoConfigFile
    /\ mainFiles = {}
    /\ worktrees = <<>>
    /\ wtEvents = <<>>

InitNoJournal ==
    /\ workspace = [d \in Developers |-> <<>>]
    /\ proc = [p \in Procs |-> IdleProc]

InitCalls ==
    /\ lastOp = [op |-> "init", arg |-> Null, ret |-> Null]
    /\ nCalls = 0

\* initDeveloper has run for alice; journal-1.md holds its banner, or the
\* workspace holds no journal file yet.
InitJournal ==
    /\ developer = "alice"
    /\ \E first \in {{}, {1}} :
          workspace = [d \in Developers |->
                          IF d = "alice" THEN [n \in first |-> <<Top(n)>>] ELSE <<>>]
    /\ proc = [p \in Procs |-> IdleProc]
    /\ InitTaskStore /\ InitNoWorktrees /\ InitCalls

NextAddSession == \E s \in SessionInputs : AddSession(s)

SpecAddSession == InitJournal /\ [][NextAddSession]_vars

InitJournalOps ==
    /\ developer \in {NoDeveloper, "alice"}
    /\ InitNoJournal /\ InitTaskStore /\ InitNoWorktrees /\ InitCalls

NextJournalOps ==
    \/ \E s \in OpsInputs : AddSession(s)
    \/ RotateJournalIfNeededOp
    \/ \E d \in Developers, n \in FileNumbers : CreateJournalFileOp(d, n)
    \/ \E d \in Developers : GetJournalFilesOp(d)
    \/ GetActiveJournalOp
    \/ GetJournalStatusOp
    \/ \E d \in Developers : InitDeveloper(d)

SpecJournalOps == InitJournalOps /\ [][NextJournalOps]_vars

NextConcurrent ==
    \E p \in Procs :
        \/ \E s \in PlainInputs : ProcRotate(p, s)
        \/ ProcCount(p)
        \/ ProcAppend(p)

SpecConcurrent == InitJournal /\ [][NextConcurrent]_vars

InitTasks ==
    /\ developer = "alice"
    /\ InitNoJournal /\ InitTaskStore /\ InitNoWorktrees /\ InitCalls

NextTasks ==
    \/ \E t \in Titles, o \in CreateTaskOptions, pos \in {0, Len(dirOrder)} :
          CreateTask(t, o, pos)
    \/ \E d \in DOMAIN tasks, u \in UpdateInputs : UpdateTaskOp(d, u)
    \/ \E q \in Queries, stop \in {"no", "updated", "cleared"} : ArchiveTask(q, stop)
    \/ \E d \in DOMAIN tasks : SetCurrentTask(d)
    \/ NextDay

SpecTasks == InitTasks /\ [][NextTasks]_vars

\* The dispatcher's way of moving a task on: the next phase index is
\* written with updateTask.
AdvancePhase(taskDir) ==
    /\ ReadTask(tasks, taskDir) # Null
    /\ UpdateTaskOp(taskDir, [current_phase |-> ReadTask(tasks, taskDir).current_phase + 1])

NextLifecycle ==
    \/ \E t \in Titles, o \in CreateTaskOptions, pos \in {0, Len(dirOrder)} :
          CreateTask(t, o, pos)
    \/ \E d \in DOMAIN tasks : AdvancePhase(d)
    \/ \E d \in DOMAIN tasks, dt \in {"backend", "frontend"} : InitContext(d, dt, "claude")
    \/ \E q \in Queries : ArchiveTask(q, "no")

SpecLifecycle == InitTasks /\ [][NextLifecycle]_vars

\* One task, created by alice on the first day, and two writer processes.
InitWriters ==
    /\ developer = "alice"
    /\ InitNoJournal /\ InitNoWorktrees /\ InitCalls
    /\ contextFiles = <<>>
    /\ agents = <<>>
    /\ today = 1
    /\ tasks = WriteTask(<<>>, <<DatePrefix(1), "fix">>,
                         NewTask(<<"fix">>, "Fix", "alice", "alice", 1))
    /\ dirOrder = << <<DatePrefix(1), "fix">> >>
    /\ archive = <<>>
    /\ currentTask = NoPointer

NextWriters ==
    \E p \in Procs :
        \/ \E d \in DOMAIN tasks \cup {<<DatePrefix(1), "gone">>}, c \in TaskCalls :
              ProcReadTask(p, d, c)
        \/ ProcWriteTask(p)
        \/ ProcGenerate(p)

SpecWriters == InitWriters /\ [][NextWriters]_vars

NextAgents ==
    \/ \E o \in LaunchOptions, spawnOk \in BOOLEAN, exited \in BOOLEAN :
          LaunchAgent(o, spawnOk, exited)
    \/ \E pid \in DOMAIN agents : AgentExit(pid)

SpecAgents == InitTasks /\ [][NextAgents]_vars

\* A task is isolated by creating a worktree and recording its path in the
\* task record; archiveTask and removeWorktree are the two ways it ends.
NextIsolation ==
    \/ \E t \in {"Fix", "Login"}, o \in CreateTaskOptions, pos \in {0, Len(dirOrder)} :
          CreateTask(t, o, pos)
    \/ \E b \in Branches : CreateWorktree(b, "", "", TRUE, {}, {})
    \/ \E d \in DOMAIN tasks, w \in DOMAIN worktrees :
          UpdateTaskOp(d, [worktree_path |-> w])
    \/ \E q \in Queries : ArchiveTask(q, "no")
    \/ \E w \in DOMAIN worktrees : RemoveWorktree(w, FALSE, TRUE)

SpecIsolation == InitTasks /\ [][NextIsolation]_vars

NextListing == \E stdout \in Listings, gitOk \in BOOLEAN : ListWorktreesOp(stdout, gitOk)

SpecListing == InitTasks /\ [][NextListing]_vars

LegacyDir == <<DatePrefix(1), "legacy">>
GoneDir == <<DatePrefix(1), "gone">>

NextTaskReads ==
    \/ \E t \in {"Fix", "Fix login"}, o \in CreateTaskOptions : CreateTask(t, o, Len(dirOrder))
    \/ \E d \in DOMAIN tasks \cup {LegacyDir} : ShellWrite(d, 0)
    \/ \E d \in DOMAIN tasks \cup {GoneDir}, u \in UpdateInputs : UpdateTaskOp(d, u)
    \/ \E d \in DOMAIN tasks \cup {GoneDir} : ReadTaskOp(d)
    \/ \E q \in Queries : FindTaskOp(q)
    \/ ListTasksOp(NoFilter)
    \/ \E q \in Queries : ArchiveTask(q, "no")
    \/ \E m \in {"", YearMonth(1)} : \E r \in Perms(ArchivedIn(archive, m)) :
          ListArchivedTasksOp(m, r)

SpecTaskReads == InitTasks /\ [][NextTaskReads]_vars

\* What worktree.yaml may hold: nothing, text that is no YAML, a scalar, a
\* mapping with one key, one with an ill-typed value, one with a key the
\* schema does not know.
ConfigFiles ==
    { NoConfigFile, Garbage, Scalar,
      YamlMap([base_dir |-> Str("wt")]),
      YamlMap([base_dir |-> Str("wt"), copy_files |-> Str(".env")]),
      YamlMap([post_create |-> Arr(<<"npm install">>), editor |-> Str("vi")]) }

\* What implement.jsonl of a task may hold after it was edited by hand.
JsonlContents ==
    { <<>>,
      <<NotJson>>,
      <<GetImplementBase[1], NotJson, GetImplementBase[2]>>,
      <<NoFileKey, Blank, GetImplementBase[1]>>,
      <<Entry("", "Shared coding standards"), GetImplementBase[2]>> }

FixDir == <<DatePrefix(1), "fix">>

\* One task, created by alice on the first day; worktree.yaml and the
\* task's implement.jsonl hold whatever was put there.
InitValidation ==
    /\ developer = "alice"
    /\ InitNoJournal /\ InitCalls
    /\ agents = <<>>
    /\ today = 1
    /\ tasks = WriteTask(<<>>, FixDir, NewTask(<<"fix">>, "Fix", "alice", "alice", 1))
    /\ dirOrder = <<FixDir>>
    /\ archive = <<>>
    /\ currentTask = NoPointer
    /\ \E lines \in JsonlContents :
          contextFiles = With(<<>>, CtxKey(FixDir), [implement |-> lines])
    /\ wtConfig \in ConfigFiles
    /\ mainFiles = {}
    /\ worktrees = <<>>
    /\ wtEvents = <<>>

NextValidation ==
    \/ \E d \in {FixDir, LegacyDir} : ShellWrite(d, 0)
    \/ \E o \in CreateTaskOptions : CreateTask("Fix login", o, Len(dirOrder))
    \/ \E d \in DOMAIN tasks : ReadTaskOp(d)
    \/ \E q \in Queries : FindTaskOp(q)
    \/ ListTasksOp(NoFilter)
    \/ LoadWorktreeConfigOp
    \/ \E n \in {"implement", "check"} : ReadJsonlOp(FixDir, n)

SpecValidation == InitValidation /\ [][NextValidation]_vars

\* What a caller of createTask passes: nothing, an assignee, a slug of its
\* own (the empty string, or custom).
CreateInputs ==
    { [assignee |-> ""],
      [assignee |-> "bob"],
      [assignee |-> "", slug |-> <<>>],
      [assignee |-> "bob", slug |-> <<"custom">>] }

NextCreate ==
    \/ \E t \in {"Fix", "Fix!", "!!!"}, o \in CreateInputs, pos \in {0, Len(dirOrder)} :
          CreateTask(t, o, pos)
    \/ NextDay

SpecCreate == InitJournalOps /\ [][NextCreate]_vars

\* The manifests of one task: generated by initContext or by the adapter
\* itself, extended by addContext, read back by readJsonl.
NextContext ==
    \/ \E d \in {FixDir, GoneDir}, dt \in DevTypes, p \in Detected : InitContext(d, dt, p)
    \/ \E d \in {FixDir, GoneDir}, dt \in DevTypes : GenerateContextFilesOp(d, dt)
    \/ \E d \in {FixDir, GoneDir}, n \in {"implement", "check.jsonl", "notes"},
          t \in AddTargets : AddContext(d, n, t, "by hand")
    \/ \E n \in {"implement", "check", "debug", "notes"} : ReadJsonlOp(FixDir, n)

SpecContext == InitWriters /\ [][NextContext]_vars

\* Records that pass the schema: a fresh one, one under way, one completed,
\* one of another task.
TaskRecords ==
    LET fresh == NewTask(<<"fix">>, "Fix", "alice", "alice", 1) IN
    { fresh,
      Merge(fresh, [status |-> "in_progress", dev_type |-> "backend",
                    current_phase |-> 2, worktree_path |-> "/tmp/wt", notes |-> "n"]),
      Merge(fresh, ArchiveUpdates(2)),
      NewTask(<<"fix", "login">>, "Fix login", "bob", "alice", 2) }

NextRoundTrip ==
    \/ \E d \in {FixDir, LegacyDir, GoneDir}, t \in TaskRecords : WriteTaskOp(d, t)
    \/ \E d \in {FixDir, LegacyDir, GoneDir} : ReadTaskOp(d)
    \/ \E d \in {FixDir, LegacyDir}, pos \in {0, Len(dirOrder)} : ShellWrite(d, pos)
    \/ \E u \in UpdateInputs : UpdateTaskOp(FixDir, u)

SpecRoundTrip == InitWriters /\ [][NextRoundTrip]_vars

NextAgentLog ==
    \/ \E line \in LogLines : ParseAgentLogOp(line)
    \/ NextDay

SpecAgentLog == InitTasks /\ [][NextAgentLog]_vars

\* addSession calls of two processes in one repository, whose developer
\* file is rewritten by initDeveloper while they run.
NextCrossDeveloper ==
    \/ \E p \in Procs :
          \/ ProcStart(p, PlainSession)
          \/ ProcRotateStarted(p)
          \/ ProcCount(p)
          \/ ProcAppend(p)
    \/ \E d \in Developers : InitDeveloper(d)

SpecCrossDeveloper == InitJournal /\ [][NextCrossDeveloper]_vars

\* The task "Fix" was created and archived on the first day and then created
\* again: the active directory has the name of one in the archive.
InitArchived ==
    /\ developer = "alice"
    /\ InitNoJournal /\ InitNoWorktrees /\ InitCalls
    /\ contextFiles = <<>>
    /\ agents = <<>>
    /\ today = 1
    /\ tasks = WriteTask(<<>>, <<DatePrefix(1), "fix">>,
                         NewTask(<<"fix">>, "Fix", "alice", "alice", 1))
    /\ dirOrder = << <<DatePrefix(1), "fix">> >>
    /\ archive = With(<<>>, <<YearMonth(1), <<DatePrefix(1), "fix">> >>,
                      UpdateTask(tasks, <<DatePrefix(1), "fix">>,
                                 ArchiveUpdates(1)).ret)
    /\ currentTask = NoPointer

NextArchive ==
    \/ \E t \in {"Fix", "Fix login", "Login"}, pos \in {0, Len(dirOrder)} :
          CreateTask(t, [assignee |-> ""], pos)
    \/ \E q \in Queries : ArchiveTask(q, "no")
    \/ \E d \in DOMAIN tasks : SetCurrentTask(d)
    \/ NextDay

SpecArchive == InitArchived /\ [][NextArchive]_vars

\* rotateJournalIfNeeded and addSession alone, from a workspace without a
\* journal file.
NextRotation ==
    \/ \E s \in PlainInputs : AddSession(s)
    \/ RotateJournalIfNeededOp

SpecRotation == InitTasks /\ [][NextRotation]_vars

\* The configuration is saved, loaded, and used by createWorktree.
NextConfig ==
    \/ \E c \in SaveInputs : SaveWorktreeConfigOp(c)
    \/ LoadWorktreeConfigOp
    \/ \E b \in Branches, gitOk \in BOOLEAN : CreateWorktree(b, "", "", gitOk, {}, {})

SpecConfig == InitTasks /\ [][NextConfig]_vars

\* initContext and addContext on one task directory; the directory src/api
\* is named with and without its trailing slash.
NextAddContext ==
    \/ \E dt \in {"backend", "fullstack"} : InitContext(FixDir, dt, "claude")
    \/ \E n \in {"implement", "implement.jsonl", "notes"},
          t \in AddTargets \cup {[path |-> "src/api/", kind |-> "directory",
                                   slash |-> TRUE]} :
            AddContext(FixDir, n, t, "by hand")

SpecAddContext == InitWriters /\ [][NextAddContext]_vars

InitWorktrees ==
    /\ developer = "alice"
    /\ InitNoJournal /\ InitTaskStore /\ InitCalls
    /\ wtConfig \in {YamlOf(c) : c \in WorktreeConfigs}
    /\ mainFiles \in SUBSET {".env", ".env.local"}
    /\ worktrees = <<>>
    /\ wtEvents = <<>>

NextWorktrees ==
    \/ \E b \in Branches, p \in {"", "/tmp/wt"}, base \in {"", "main"},
          gitOk \in BOOLEAN,
          copyFails \in SUBSET {".env", ".env.local"},
          hookFails \in SUBSET {"npm install", "npm run build"} :
            CreateWorktree(b, p, base, gitOk, copyFails, hookFails)
    \/ \E p \in DOMAIN worktrees \cup {"/tmp/wt"}, force \in BOOLEAN, gitOk \in BOOLEAN :
            RemoveWorktree(p, force, gitOk)

SpecWorktrees == InitWorktrees /\ [][NextWorktrees]_vars

(***************************************************************************)
(* Claims                                                                  *)
(***************************************************************************)

IsCall(op) == nCalls' = nCalls + 1 /\ lastOp'.op = op

\* C1: in a sequential series of addSession calls that starts with no
\* recorded session, the k-th call returns k, whatever text the sessions hold.
C1_KthCallReturnsK == lastOp.op = "addSession" => lastOp.ret = nCalls

RECURSIVE HeaderNumbers(_, _)
HeaderNumbers(ws, js) ==
    IF js = <<>> THEN <<>>
    ELSE LET hs == SelectSeq(ws[Head(js)], LAMBDA it : it.k = "hdr")
         IN  [i \in 1..Len(hs) |-> hs[i].n] \o HeaderNumbers(ws, Tail(js))

StrictlyIncreasing(h) == \A i \in 1..(Len(h) - 1) : h[i] < h[i + 1]

\* C2: in every reachable state, interleaved addSession calls included, the
\* session header numbers of a developer, read in ascending file number and
\* then file position, are strictly increasing (hence pairwise distinct).
C2_HeadersStrictlyIncreasing ==
    \A d \in Developers :
        StrictlyIncreasing(HeaderNumbers(workspace[d], SortedSeq(DOMAIN workspace[d])))

Listed(list) == {list[i].dirName : i \in DOMAIN list}

Archived(ret) == "path" \in DOMAIN ret

\* C3: when archiveTask(q) returns a path, the record at the archive
\* location is the record the found task had before the call with status
\* "completed" and completedAt set, the active directory is gone, and
\* listTasks no longer returns it; afterwards only createTask adds a
\* directory to the active set.
C3_ArchiveRelocates ==
    [][ /\ (IsCall("archiveTask") /\ Archived(lastOp'.ret)) =>
              LET found  == FindTask(lastOp'.arg)
                  target == lastOp'.ret.path
              IN  /\ found # Null
                  /\ target = <<YearMonth(today), found.dir>>
                  /\ target \in DOMAIN archive'
                  /\ archive'[target] =
                        [found.task EXCEPT !.status = "completed",
                                           !.completedAt = DateString(today)]
                  /\ found.dir \notin DOMAIN tasks'
                  /\ found.dir \notin Range(dirOrder')
                  /\ found.dir \notin Listed(ListTasks(NoFilter))'
        /\ ~IsCall("createTask") =>
              /\ DOMAIN tasks' \subseteq DOMAIN tasks
              /\ Listed(ListTasks(NoFilter))' \subseteq Listed(ListTasks(NoFilter))
      ]_vars

\* An archived record that was updated before and completed a day after its
\* creation, with another task left in the active set.
C3_Witness ==
    /\ lastOp.op = "archiveTask"
    /\ Archived(lastOp.ret)
    /\ archive[lastOp.ret.path].notes = "n"
    /\ archive[lastOp.ret.path].createdAt # archive[lastOp.ret.path].completedAt
    /\ Len(dirOrder) = 1

\* C4: when the directory name createTask derives already names an active
\* task, the existing task's record is neither overwritten nor merged.
C4_CollisionKeepsRecord ==
    [][ ( /\ IsCall("createTask")
          /\ Archived(lastOp'.ret)
          /\ lastOp'.ret.path \in DOMAIN tasks ) =>
            tasks'[lastOp'.ret.path] = tasks[lastOp'.ret.path] ]_vars

\* C5: archiveTask interrupted after its status update and before the
\* relocation leaves the task completed, with a completion date, in the
\* active set: listTasks and findTask still return it.
C5_InterruptedArchive ==
    [][ (IsCall("archiveTask") /\ "interrupted" \in DOMAIN lastOp'.ret) =>
          LET dirName == lastOp'.ret.dir
              found   == FindIn(tasks', dirOrder', lastOp'.arg)
              list    == ListTasks(NoFilter)'
          IN  /\ dirName \in DOMAIN tasks'
              /\ tasks'[dirName].status = "completed"
              /\ tasks'[dirName].completedAt = DateString(today)
              /\ archive' = archive
              /\ found # Null /\ found.dir = dirName
              /\ found.task.status = "completed"
              /\ \E i \in DOMAIN list :
                    list[i].dirName = dirName /\ list[i].task.status = "completed"
      ]_vars

C5_Witness ==
    /\ lastOp.op = "archiveTask"
    /\ "interrupted" \in DOMAIN lastOp.ret
    /\ lastOp.ret.interrupted = "updated"
    /\ tasks[lastOp.ret.dir].status = "completed"
    /\ currentTask = lastOp.ret.dir
    /\ Len(dirOrder) = 2

\* C6: after archiveTask succeeds the current-task pointer does not
\* reference the archived directory; a pointer that referenced it is cleared.
C6_PointerCleared ==
    [][ (IsCall("archiveTask") /\ Archived(lastOp'.ret)) =>
          LET dirName == lastOp'.ret.path[2]
          IN  /\ currentTask' # dirName
              /\ currentTask = dirName => currentTask' = NoPointer ]_vars

C6_Witness ==
    /\ lastOp.op = "archiveTask"
    /\ Archived(lastOp.ret)
    /\ lastOp.ret.cleared
    /\ currentTask = NoPointer
    /\ Len(dirOrder) = 1

GitAdded(events) == events # <<>> /\ events[1].step = "git"

\* C7: once the VCS worktree creation step of createWorktree has succeeded,
\* a failing bootstrap copy or post-create hook is only warned about:
\* createWorktree returns the worktree path and the worktree stays.
C7_BestEffortSteps ==
    [][ (IsCall("createWorktree") /\ GitAdded(wtEvents')) =>
          LET targetPath == TargetPath(LoadWorktreeConfig(wtConfig),
                                       lastOp'.arg[1], lastOp'.arg[2])
          IN  /\ lastOp'.ret = [path |-> targetPath]
              /\ targetPath \in DOMAIN worktrees' ]_vars

IsPrefix(a, b) == Len(a) <= Len(b) /\ SubSeq(b, 1, Len(a)) = a

\* C8: journal files are append-only: across every JournalManager operation
\* the earlier content of every existing journal file is a prefix of its
\* later content.
C8_AppendOnly ==
    [][ \A d \in Developers : \A n \in DOMAIN workspace[d] :
            /\ n \in DOMAIN workspace'[d]
            /\ IsPrefix(workspace[d][n], workspace'[d][n]) ]_vars

C11_PhaseNeverDecreases ==
    [][ \A d \in DOMAIN tasks \cap DOMAIN tasks' :
            (tasks[d] # Invalid /\ tasks'[d] # Invalid) =>
                tasks'[d].current_phase >= tasks[d].current_phase ]_vars

\* C12: a record that archiveTask has relocated is never changed or replaced
\* by a later task operation, the archiving of a new task with the same
\* directory name in the same month included.
C12_ArchivedImmutable ==
    [][ \A t \in DOMAIN archive :
            t \in DOMAIN archive' /\ archive'[t] = archive[t] ]_vars

\* A second task with the directory name of an archived one was created and
\* its archiving in the same month was attempted.
C12_Witness ==
    /\ lastOp.op = "archiveTask"
    /\ lastOp.ret = Throws("ENOTEMPTY")
    /\ \E t \in DOMAIN archive :
          /\ t[2] \in DOMAIN tasks
          /\ tasks[t[2]].title # archive[t].title

\* C13: last write wins.  A write step stores the writer's updates over the
\* record the writer read, so whatever another call wrote to other fields
\* in between is gone; an interleaving of two calls that change different
\* fields leaves only one call's change in the record.
C13_LastWriteWins ==
    [][ \A p \in Procs :
          (proc[p].pc = "read" /\ proc'[p].pc # "read") =>
             LET after == tasks'[proc[p].taskDir] IN
             \A f \in DOMAIN after :
                after[f] = IF f \in DOMAIN proc[p].updates
                           THEN proc[p].updates[f] ELSE proc[p].task[f] ]_vars

Kept(task, updates) == \A f \in DOMAIN updates : task[f] = updates[f]

\* Two calls on one task directory that change different fields have both
\* returned, and the record holds the change of one and not of the other.
C13_Witness ==
    /\ nCalls = 2
    /\ \A p \in Procs : proc[p].pc = "idle" /\ "taskDir" \in DOMAIN proc[p]
    /\ proc["p1"].taskDir = proc["p2"].taskDir
    /\ DOMAIN proc["p1"].updates \cap DOMAIN proc["p2"].updates = {}
    /\ proc["p1"].op = "initContext" /\ proc["p2"].op = "updateTask"
    /\ Kept(tasks[proc["p1"].taskDir], proc["p2"].updates)
    /\ ~Kept(tasks[proc["p1"].taskDir], proc["p1"].updates)

\* C14: launchAgent in foreground mode returns only after the agent process
\* has exited; in background mode it returns a detached process without
\* waiting for its exit.
C14_ForegroundBlocks ==
    [][ (IsCall("launchAgent") /\ lastOp'.ret.pid # NoPid) =>
          LET agent == agents'[lastOp'.ret.pid] IN
          IF lastOp'.arg.background
          THEN agent.detached
          ELSE ~agent.running ]_vars

\* C15: after archiveTask has succeeded for a task whose record names an
\* isolation worktree, that worktree is no longer among the listed ones.
C15_WorktreeRemovedOnArchive ==
    [][ (IsCall("archiveTask") /\ Archived(lastOp'.ret)) =>
          LET task == archive'[lastOp'.ret.path] IN
          task.worktree_path # "null" =>
              task.worktree_path \notin DOMAIN worktrees' ]_vars

HasLine(entry, key) == \E i \in DOMAIN entry : entry[i].key = key

ValOf(entry, key) == entry[CHOOSE i \in DOMAIN entry : entry[i].key = key].val

NonBare(listing) == SelectSeq(listing, LAMBDA e : ~HasLine(e, "bare"))

\* C16: listWorktrees returns exactly the non-bare entries of the porcelain
\* listing, in listing order; the first returned entry and no other has
\* isMain; a detached entry has branch null; an entry with branch
\* refs/heads/<name> has branch <name>.
C16_ListingParsed ==
    (lastOp.op = "listWorktrees" /\ lastOp.arg.gitOk) =>
        LET listed == NonBare(lastOp.arg.stdout)
            ret    == lastOp.ret
        IN  /\ Len(ret) = Len(listed)
            /\ \A i \in DOMAIN ret :
                  /\ ret[i].path = ValOf(listed[i], "worktree")
                  /\ ~ret[i].isBare
                  /\ ret[i].isMain = (i = 1)
                  /\ HasLine(listed[i], "detached") => ret[i].branch = Null
                  /\ HasLine(listed[i], "branch") =>
                        <<"refs", "heads">> \o ret[i].branch.name
                           = ValOf(listed[i], "branch")

\* A listing that starts with a bare entry and goes on with a detached
\* worktree and one on a branch.
C16_Witness ==
    /\ lastOp.op = "listWorktrees" /\ lastOp.arg.gitOk
    /\ Len(lastOp.arg.stdout) = MaxEntries
    /\ HasLine(lastOp.arg.stdout[1], "bare")
    /\ Len(lastOp.ret) = 2
    /\ lastOp.ret[1].branch = Null /\ lastOp.ret[1].isMain
    /\ lastOp.ret[2].branch = [name |-> <<"feat", "refs", "heads">>]

Steps(events) == {events[i].step : i \in DOMAIN events}

\* C17: when the git command fails, createWorktree and removeWorktree end
\* with an error for the caller; createWorktree then copies no bootstrap
\* file and runs no post-create hook.
C17_GitFailurePropagates ==
    [][ ((IsCall("createWorktree") \/ IsCall("removeWorktree"))
            /\ "git-failed" \in Steps(wtEvents')) =>
          /\ "error" \in DOMAIN lastOp'.ret
          /\ Steps(wtEvents') = {"git-failed"}
          /\ worktrees' = worktrees ]_vars

\* git refused to add a worktree although a bootstrap file was there to copy
\* and hooks were configured.
C17_Witness ==
    /\ lastOp.op = "createWorktree"
    /\ "error" \in DOMAIN lastOp.ret
    /\ Steps(wtEvents) = {"git-failed"}
    /\ LoadWorktreeConfig(wtConfig).post_create # <<>>
    /\ Range(LoadWorktreeConfig(wtConfig).copy_files) \cap mainFiles # {}

\* C18: updateTask(dir, partial) on a record that reads and validates
\* stores and returns the record with every field of partial set to its new
\* value and every other field as it was; on a missing or invalid record it
\* returns null and changes nothing.
C18_ShallowMerge ==
    [][ IsCall("updateTask") =>
          LET dir     == lastOp'.arg[1]
              partial == lastOp'.arg[2]
          IN  IF dir \in DOMAIN tasks /\ tasks[dir] # Invalid
              THEN /\ DOMAIN tasks' = DOMAIN tasks
                   /\ lastOp'.ret = tasks'[dir]
                   /\ DOMAIN tasks'[dir] = DOMAIN tasks[dir] \cup DOMAIN partial
                   /\ \A f \in DOMAIN tasks'[dir] :
                         tasks'[dir][f] = IF f \in DOMAIN partial THEN partial[f]
                                          ELSE tasks[dir][f]
                   /\ \A d \in DOMAIN tasks \ {dir} : tasks'[d] = tasks[d]
              ELSE /\ lastOp'.ret = Null
                   /\ tasks' = tasks ]_vars

\* updateTask was called on a task.json that does not validate, next to a
\* task that was updated before.
C18_Witness ==
    /\ lastOp.op = "updateTask"
    /\ lastOp.ret = Null
    /\ lastOp.arg[1] \in DOMAIN tasks
    /\ tasks[lastOp.arg[1]] = Invalid
    /\ \E d \in DOMAIN tasks : tasks[d] # Invalid /\ tasks[d].status = "in_progress"

Raised(ret) == "error" \in DOMAIN ret

NoMatch(nameOrSlug) ==
    \A d \in DOMAIN tasks :
        tasks[d] # Invalid => ~Matches(d, tasks[d], nameOrSlug)

\* The task store half: what the task operations return when the task
\* directory, or every task, is absent.
TasksAbsentOk ==
    /\ (IsCall("readTask") /\ lastOp'.arg \notin DOMAIN tasks) => lastOp'.ret = Null
    /\ (IsCall("updateTask") /\ lastOp'.arg[1] \notin DOMAIN tasks) => lastOp'.ret = Null
    /\ (IsCall("findTask") /\ NoMatch(lastOp'.arg)) => lastOp'.ret = Null
    /\ (IsCall("archiveTask") /\ NoMatch(lastOp'.arg)) => lastOp'.ret = Null
    /\ (IsCall("listTasks") /\ tasks = <<>>) => lastOp'.ret = <<>>
    /\ (IsCall("listArchivedTasks") /\ archive = <<>>) => lastOp'.ret = <<>>

\* The journal half: no workspace, no journal file, no developer.
JournalAbsentOk ==
    /\ (IsCall("getJournalFiles") /\ workspace[lastOp'.arg] = <<>>) => lastOp'.ret = <<>>
    /\ (IsCall("getActiveJournal") /\ (developer = NoDeveloper \/ Ws = <<>>)) =>
          lastOp'.ret = Null
    /\ ((IsCall("addSession") \/ IsCall("rotateJournalIfNeeded"))
           /\ developer = NoDeveloper) => ~Raised(lastOp'.ret)

\* C19: an operation whose task, developer identity or journal is absent
\* returns null or an empty list and does not raise; addSession and
\* rotateJournalIfNeeded with no developer initialised return without
\* raising as well.
C19_AbsentNotRaised == [][TasksAbsentOk /\ JournalAbsentOk]_vars

\* The task store half on its own (it holds under SpecTaskReads).
TaskHalfNotRaised == [][TasksAbsentOk]_vars

Valid(d) == d \in DOMAIN tasks /\ tasks[d] # Invalid

ConfigInvalid(file) ==
    \/ file.kind \in {"garbage", "scalar"}
    \/ /\ file.kind = "map"
       /\ \E f \in DOMAIN file.fields \cap DOMAIN WorktreeConfigSchema :
             file.fields[f].type # WorktreeConfigSchema[f]

IsEntry(line) ==
    /\ DOMAIN line \subseteq {"file", "reason", "type"}
    /\ {"file", "reason"} \subseteq DOMAIN line
    /\ line.file # ""

\* C20: a stored record that fails validation makes no read path raise:
\* readTask returns null for it, listTasks and findTask pass over it and
\* still return the other tasks, loadWorktreeConfig returns the default
\* configuration, readJsonl returns the valid entries without the invalid
\* lines.
C20_InvalidIsSkipped ==
    [][ /\ (IsCall("readTask") /\ ~Valid(lastOp'.arg)) => lastOp'.ret = Null
        /\ IsCall("listTasks") =>
              /\ Listed(lastOp'.ret) = {d \in DOMAIN tasks : Valid(d)}
              /\ \A i \in DOMAIN lastOp'.ret :
                    lastOp'.ret[i].task = tasks[lastOp'.ret[i].dirName]
        /\ IsCall("findTask") =>
              IF NoMatch(lastOp'.arg) THEN lastOp'.ret = Null
              ELSE /\ Valid(lastOp'.ret.dir)
                   /\ lastOp'.ret.task = tasks[lastOp'.ret.dir]
                   /\ Matches(lastOp'.ret.dir, lastOp'.ret.task, lastOp'.arg)
        /\ (IsCall("loadWorktreeConfig") /\ ConfigInvalid(wtConfig)) =>
              lastOp'.ret = DEFAULT_WORKTREE_CONFIG
        /\ IsCall("readJsonl") =>
              LET key   == CtxKey(lastOp'.arg[1])
                  lines == IF key \in DOMAIN contextFiles
                              /\ lastOp'.arg[2] \in DOMAIN contextFiles[key]
                           THEN contextFiles[key][lastOp'.arg[2]] ELSE <<>>
              IN  lastOp'.ret = SelectSeq(lines, IsEntry) ]_vars

\* listTasks returned a task while the directory listed before it holds a
\* task.json that does not validate, worktree.yaml has an ill-typed value
\* and implement.jsonl holds a line that is no JSON between two entries.
C20_Witness ==
    /\ lastOp.op = "listTasks"
    /\ Len(lastOp.ret) = 1
    /\ Len(dirOrder) = 3
    /\ tasks[dirOrder[1]] = Invalid
    /\ wtConfig.kind = "map" /\ ConfigInvalid(wtConfig)
    /\ Len(contextFiles[CtxKey(FixDir)].implement) = 3

\* The assignee of a createTask call can be resolved: the caller names one,
\* or the developer identity is initialised.
Resolvable(options) == options.assignee # "" \/ developer # NoDeveloper

\* The slug a createTask call works with.
Effective(title, options) ==
    IF "slug" \in DOMAIN options THEN options.slug ELSE Slugify(title)

\* After the call the directory dirName holds a fresh record that readTask
\* accepts, and the call returned the path of that directory.
Created(dirName) ==
    /\ dirName \in DOMAIN tasks'
    /\ ReadTask(tasks', dirName) # Null
    /\ tasks'[dirName].status = "planning"
    /\ tasks'[dirName].current_phase = 0
    /\ tasks'[dirName].completedAt = "null"
    /\ "path" \in DOMAIN lastOp'.ret
    /\ lastOp'.ret.path = dirName

\* C21 (amended): whenever the assignee can be resolved and the slug the call
\* works with (options.slug when the caller passes one, else the slug of the
\* title) is not empty, createTask leaves a directory named <MM-DD>-<slug>
\* holding a readable record with status "planning", current_phase 0 and no
\* completion date, and returns the path of that directory.
C21_CreateTaskCreates ==
    [][\A t \in Titles, o \in CreateInputs :
          ( /\ IsCall("createTask")
            /\ lastOp'.arg = <<t, o>>
            /\ Resolvable(o)
            /\ Effective(t, o) # <<>> )
          => Created(<<DatePrefix(today)>> \o Effective(t, o))]_vars

\* C21 as stated: a title with a non-empty slug and a resolvable assignee
\* always give the directory <MM-DD>-<slug of the title>.
C21_AsStated ==
    [][\A t \in Titles, o \in CreateInputs :
          ( /\ IsCall("createTask")
            /\ lastOp'.arg = <<t, o>>
            /\ Resolvable(o)
            /\ Slugify(t) # <<>> )
          => Created(<<DatePrefix(today)>> \o Slugify(t))]_vars

\* A task was created under the slug the caller passed, for a title that has
\* no slug of its own, on the second day.
C21_Witness ==
    /\ lastOp.op = "createTask"
    /\ lastOp.arg = <<"!!!", [assignee |-> "bob", slug |-> <<"custom">>]>>
    /\ today = 2
    /\ lastOp.ret.path = <<DatePrefix(2), "custom">>
    /\ tasks[<<DatePrefix(2), "custom">>].status = "planning"
    /\ <<DatePrefix(1), "fix">> \in DOMAIN tasks

\* The call raised, and neither a directory nor a record was written.
Refused ==
    /\ "error" \in DOMAIN lastOp'.ret
    /\ tasks' = tasks
    /\ dirOrder' = dirOrder

\* C22 (amended): createTask raises, and leaves the task directories and
\* their records as they were, when the caller names no assignee and no
\* developer identity is initialised, or when the slug the call works with
\* (options.slug when passed, else the slug of the title) is empty.
C22_CreateTaskRefuses ==
    [][\A t \in Titles, o \in CreateInputs :
          ( /\ IsCall("createTask")
            /\ lastOp'.arg = <<t, o>>
            /\ (~Resolvable(o) \/ Effective(t, o) = <<>>) )
          => Refused]_vars

\* C22 as stated: the call raises whenever the title has no slug.
C22_AsStated ==
    [][\A t \in Titles, o \in CreateInputs :
          ( /\ IsCall("createTask")
            /\ lastOp'.arg = <<t, o>>
            /\ (~Resolvable(o) \/ Slugify(t) = <<>>) )
          => Refused]_vars

\* With a task on disk, a call with an initialised developer and a title
\* that has a slug was refused for the empty slug it passed.
C22_Witness ==
    /\ lastOp.op = "createTask"
    /\ lastOp.arg = <<"Fix", [assignee |-> "", slug |-> <<>>]>>
    /\ developer = "alice"
    /\ lastOp.ret = Throws("Could not generate slug from title")
    /\ Len(dirOrder) = 2

\* A call that wrote the manifests of directory d for dev_type dt has
\* returned: generateContextFiles itself, or initContext.
Generated(d, dt) ==
    /\ IsCall("generateContextFiles") \/ IsCall("initContext")
    /\ lastOp'.arg[1] = d
    /\ lastOp'.arg[2] = dt
    /\ lastOp'.ret = Null

\* C23: for every dev_type the implement manifest written by
\* generateContextFiles is the base entries, then the backend entries iff
\* dev_type is backend, test or fullstack, then the frontend entries iff
\* dev_type is frontend or fullstack, in this order.
C23_ImplementComposition ==
    [][\A d \in {FixDir, GoneDir}, dt \in DevTypes :
          Generated(d, dt) =>
            contextFiles'[CtxKey(d)].implement =
                GetImplementBase
                  \o (IF dt \in {"backend", "test", "fullstack"}
                      THEN GetImplementBackend ELSE <<>>)
                  \o (IF dt \in {"frontend", "fullstack"}
                      THEN GetImplementFrontend ELSE <<>>)]_vars

\* The adapter has written the manifests for "test" over those for
\* "fullstack": five entries are left of seven.
C23_Witness ==
    /\ lastOp.op = "generateContextFiles"
    /\ lastOp.arg = <<FixDir, "test">>
    /\ lastOp.ret = Null
    /\ Len(contextFiles[CtxKey(FixDir)].implement) = 5
    /\ contextFiles[CtxKey(FixDir)].check # GetCheckContext("fullstack")
    /\ nCalls = 2

\* The entries every check manifest holds, those only a backend task gets
\* and those only a frontend task gets.
SharedCheckEntries ==
    { Entry(".claude/commands/trellis/finish-work.md", "Finish work checklist"),
      Entry("SPEC/shared/index.md", "Shared coding standards") }

BackendOnly ==
    { Entry(".claude/commands/trellis/check-backend.md", "Backend check spec") }
      \cup Range(GetImplementBackend)

FrontendOnly ==
    { Entry(".claude/commands/trellis/check-frontend.md", "Frontend check spec") }
      \cup Range(GetImplementFrontend)

\* C24: the check manifest of a backend task holds the shared check
\* entries and the backend-check entry and no frontend-only entry; that of a
\* frontend task holds the shared entries and the frontend-check entry and
\* no backend-only entry.
C24_CheckManifest ==
    [][\A d \in {FixDir, GoneDir} :
          LET check == Range(contextFiles'[CtxKey(d)].check) IN
          /\ Generated(d, "backend") =>
                /\ SharedCheckEntries \subseteq check
                /\ Entry(".claude/commands/trellis/check-backend.md",
                         "Backend check spec") \in check
                /\ check \cap FrontendOnly = {}
          /\ Generated(d, "frontend") =>
                /\ SharedCheckEntries \subseteq check
                /\ Entry(".claude/commands/trellis/check-frontend.md",
                         "Frontend check spec") \in check
                /\ check \cap BackendOnly = {}]_vars

\* initContext has written the manifests of a backend task.
C24_Witness ==
    /\ lastOp.op = "initContext"
    /\ lastOp.arg = <<FixDir, "backend", "claude">>
    /\ lastOp.ret = Null
    /\ tasks[FixDir].dev_type = "backend"
    /\ Len(contextFiles[CtxKey(FixDir)].check) = 3

Manifests == {"implement", "check", "debug"}

\* C25: every initContext or generateContextFiles call that returns leaves
\* each of the three manifests equal to the entries generated for the given
\* dev_type; no entry that addContext had put there is left.
C25_ManifestsReplaced ==
    [][\A d \in {FixDir, GoneDir}, dt \in DevTypes :
          Generated(d, dt) =>
            LET dir == contextFiles'[CtxKey(d)] IN
            /\ dir.implement = ImplementEntries(dt)
            /\ dir.check = GetCheckContext(dt)
            /\ dir.debug = GetDebugContext(dt)
            /\ \A n \in Manifests : \A i \in DOMAIN dir[n] :
                   dir[n][i].reason # "by hand"]_vars

\* Three calls were made, the last one initContext for a frontend task;
\* the entry addContext wrote to notes.jsonl is still there, the manifests
\* hold what was generated.
C25_Witness ==
    /\ lastOp.op = "initContext"
    /\ lastOp.arg[2] = "frontend"
    /\ lastOp.ret = Null
    /\ nCalls = 3
    /\ "notes" \in DOMAIN contextFiles[CtxKey(FixDir)]
    /\ contextFiles[CtxKey(FixDir)].notes[1].reason = "by hand"
    /\ contextFiles[CtxKey(FixDir)].implement = ImplementEntries("frontend")

\* The call that has just returned was generateContextFiles, and it wrote.
JustGenerated ==
    /\ lastOp.op = "generateContextFiles"
    /\ lastOp.ret = Null

\* C26: generateContextFiles is idempotent.  A second call with the same
\* task directory and dev_type right after the first leaves every file of
\* the directory as the first call left it; and in every state a call has
\* left, what one more such call would write is what is there.
C26_Idempotent ==
    /\ [](JustGenerated =>
            GenerateContextFiles(contextFiles, lastOp.arg[1], lastOp.arg[2])
              = contextFiles)
    /\ [][( /\ JustGenerated
            /\ IsCall("generateContextFiles")
            /\ lastOp'.arg = lastOp.arg )
          => contextFiles' = contextFiles]_vars

\* The second of two generateContextFiles calls for a fullstack task has
\* returned, and the manifests hold the fullstack entries once.
C26_Witness ==
    /\ JustGenerated
    /\ lastOp.arg = <<FixDir, "fullstack">>
    /\ nCalls = 2
    /\ tasks[FixDir].dev_type = "null"
    /\ DOMAIN contextFiles[CtxKey(FixDir)] = Manifests
    /\ Len(contextFiles[CtxKey(FixDir)].implement) = 7
    /\ Len(contextFiles[CtxKey(FixDir)].check) = 4
    /\ Len(contextFiles[CtxKey(FixDir)].debug) = 3

\* C27: when the platform lookup finds nothing, initContext on an existing
\* task directory does not raise, and the three manifests hold what the
\* Claude adapter generates for the dev_type.
C27_FallbackToClaude ==
    [][\A d \in {FixDir, GoneDir}, dt \in DevTypes :
          ( /\ IsCall("initContext")
            /\ lastOp'.arg = <<d, dt, "none">>
            /\ d \in DOMAIN tasks )
          => /\ lastOp'.ret = Null
             /\ Manifests \subseteq DOMAIN contextFiles'[CtxKey(d)]
             /\ contextFiles'[CtxKey(d)].implement = ImplementEntries(dt)
             /\ contextFiles'[CtxKey(d)].check = GetCheckContext(dt)
             /\ contextFiles'[CtxKey(d)].debug = GetDebugContext(dt)]_vars

\* initContext has run for a test task in a repository without a platform.
C27_Witness ==
    /\ lastOp.op = "initContext"
    /\ lastOp.arg = <<FixDir, "test", "none">>
    /\ lastOp.ret = Null
    /\ tasks[FixDir].dev_type = "test"
    /\ Len(contextFiles[CtxKey(FixDir)].implement) = 5
    /\ Len(contextFiles[CtxKey(FixDir)].debug) = 1

EventTypes == {"tool_call", "message", "error", "complete"}

\* A line that does not parse to a structured record.
Unstructured(line) == line = NotJson \/ line.json # "object"

\* C29: parseAgentLog is total.  Whatever the line, it returns null or an
\* event with a type out of tool_call, message, error, complete, a timestamp
\* and a content, and never raises; a line that is not JSON, or is JSON but
\* no object, gives null.
C29_ParseAgentLogTotal ==
    lastOp.op = "parseAgentLog" =>
        /\ \/ lastOp.ret = Null
           \/ /\ DOMAIN lastOp.ret = {"type", "timestamp", "content"}
              /\ lastOp.ret.type \in EventTypes
              /\ lastOp.ret.timestamp \in {DateString(day) : day \in Days}
        /\ Unstructured(lastOp.arg) => lastOp.ret = Null

\* The JSON value null, on which reading .type raises inside the try block,
\* was parsed after an error record without a message.
C29_Witness ==
    /\ lastOp.op = "parseAgentLog"
    /\ lastOp.arg = JsonValue("null")
    /\ lastOp.ret = Null
    /\ nCalls = 2

\* C30: completion can be seen in the normalised log: for some line of the
\* agent's output parseAgentLog gives an event of type complete.
C30_CompleteObservable ==
    \E line \in LogLines :
        LET event == ParseAgentLog(line, DateString(today)) IN
        event # Null /\ event.type = "complete"

\* C31: addSession calls made for different developers do not touch each
\* other's files: every step of a call that addSession started for
\* developer d leaves the workspace directory of every other developer as
\* it was.
C31_OwnWorkspaceOnly ==
    [][\A p \in Procs :
          (proc[p].pc \in {"started", "rotated", "counted"} /\ proc'[p] # proc[p])
          => \A d \in Developers \ {proc[p].dev} : workspace'[d] = workspace[d]]_vars

Whats(events) == [i \in DOMAIN events |-> events[i].what]

\* C32: a createWorktree call whose git command succeeds performs, in this
\* order: "git worktree add -b <branch>" (with or without a base branch),
\* the copy of every configured file that is in the main tree, in configured
\* order, and every configured hook, in configured order, whether or not an
\* earlier hook failed.
C32_FixedOrder ==
    [][ (IsCall("createWorktree") /\ GitAdded(wtEvents')) =>
          LET config == LoadWorktreeConfig(wtConfig)
              events == wtEvents'
              after  == SubSeq(events, 2, Len(events))
              copies == SelectSeq(after, LAMBDA e : e.step \in {"copy", "copy-failed"})
              hooks  == SelectSeq(after, LAMBDA e : e.step = "hook")
              rest   == SelectSeq(after, LAMBDA e : e.step # "warn")
          IN  /\ SubSeq(events[1].what, 1, 4)
                    = <<"worktree", "add", "-b", lastOp'.arg[1]>>
              /\ Whats(copies)
                    = SelectSeq(config.copy_files, LAMBDA f : f \in mainFiles)
              /\ Whats(hooks) = config.post_create
              /\ rest = copies \o hooks ]_vars

\* C33 as stated: when the relocation step of archiveTask raises, the
\* task's record and the current-task pointer are as they were before the
\* call.
C33_AllOrNothing ==
    [][ (IsCall("archiveTask") /\ Raised(lastOp'.ret)) =>
          /\ tasks' = tasks
          /\ currentTask' = currentTask ]_vars

\* C33: when the relocation step of archiveTask raises, the directory stays
\* among the active tasks and the archive is as it was, but the record
\* already has status completed and the day's completedAt, and a pointer
\* that referenced the task has been cleared.
C33_FailureKeepsUpdate ==
    [][ (IsCall("archiveTask") /\ Raised(lastOp'.ret)) =>
          LET dirName == FindTask(lastOp'.arg).dir
          IN  /\ dirOrder' = dirOrder
              /\ archive' = archive
              /\ DOMAIN tasks' = DOMAIN tasks
              /\ \A d \in DOMAIN tasks \ {dirName} : tasks'[d] = tasks[d]
              /\ tasks'[dirName] = [tasks[dirName] EXCEPT !.status = "completed",
                                                         !.completedAt = DateString(today)]
              /\ currentTask = dirName => currentTask' = NoPointer
              /\ currentTask' \in {currentTask, NoPointer} ]_vars

C33_Witness ==
    /\ lastOp.op = "archiveTask"
    /\ Raised(lastOp.ret)
    /\ lastOp.arg = <<"fix">>
    /\ tasks[<<DatePrefix(1), "fix">>].status = "completed"
    /\ currentTask = NoPointer
    /\ nCalls = 2

\* The active tasks whose id or directory name is q.
Exact(q) ==
    {d \in DOMAIN tasks :
        ReadTask(tasks, d) # Null /\ (d = q \/ ReadTask(tasks, d).id = q)}

\* C34: when exactly one active task has the id or the directory name q,
\* findTask(q) finds that task and archiveTask(q) archives it, whatever other
\* directory names end in "-q".
C34_ExactMatchWins ==
    [][ IsCall("archiveTask") =>
          LET q == lastOp'.arg
          IN  Cardinality(Exact(q)) = 1 =>
                /\ FindTask(q) # Null
                /\ FindTask(q).dir \in Exact(q)
                /\ Archived(lastOp'.ret) => lastOp'.ret.path[2] \in Exact(q) ]_vars

\* C35: archiveTask leaves a current-task pointer that references another
\* task than the one it archives as it is.
C35_OtherPointerKept ==
    [][ IsCall("archiveTask") =>
          LET found == FindTask(lastOp'.arg)
          IN  (found # Null /\ currentTask # NoPointer /\ currentTask # found.dir)
                => currentTask' = currentTask ]_vars

\* C36: rotateJournalIfNeeded creates the next journal file exactly when the
\* active file holds at least MAX_JOURNAL_LINES newline-terminated lines; a
\* file of MAX_JOURNAL_LINES - 1 such lines is not rotated.
C36_RotationAtTwoThousand ==
    [][ (IsCall("rotateJournalIfNeeded") /\ DOMAIN Ws # {}) =>
          LET before == workspace[developer]
              files  == SortedSeq(DOMAIN before)
              N      == files[Len(files)]
          IN  (DOMAIN workspace'[developer] # DOMAIN before)
                <=> (SumW(before[N]) >= MAX_JOURNAL_LINES) ]_vars

\* C37: from a workspace without a journal file, after any sequence of
\* rotateJournalIfNeeded and addSession calls the journal file numbers are
\* 1..N; a call creates at most one file and removes none; and a
\* rotateJournalIfNeeded call that directly follows another one creates no
\* file, so that the two together create at most one.
C37_NumbersContiguous ==
    /\ [](DOMAIN workspace["alice"] = 1..Cardinality(DOMAIN workspace["alice"]))
    /\ [][ /\ DOMAIN workspace["alice"] \subseteq DOMAIN workspace'["alice"]
           /\ Cardinality(DOMAIN workspace'["alice"])
                 <= Cardinality(DOMAIN workspace["alice"]) + 1
           /\ (lastOp.op = "rotateJournalIfNeeded" /\ IsCall("rotateJournalIfNeeded"))
                 => workspace' = workspace ]_vars

C37_Witness ==
    /\ lastOp.op = "rotateJournalIfNeeded"
    /\ lastOp.ret = [path |-> 3]
    /\ DOMAIN workspace["alice"] = {1, 2, 3}

\* C38: in the manifests a generateContextFiles or initContext call has
\* written, the check and the debug manifest hold the backend-check entry
\* exactly when the implement manifest holds the backend entries, and the
\* frontend-check entry exactly when it holds the frontend entries.
C38_ScopingConsistent ==
    [][\A d \in {FixDir, GoneDir}, dt \in DevTypes :
          Generated(d, dt) =>
            LET dir       == contextFiles'[CtxKey(d)]
                implement == Range(dir.implement)
                backend   == Range(GetImplementBackend) \subseteq implement
                frontend  == Range(GetImplementFrontend) \subseteq implement
            IN  /\ (BackendCheck \in Range(dir.check)) <=> backend
                /\ (BackendCheck \in Range(dir.debug)) <=> backend
                /\ (FrontendCheck \in Range(dir.check)) <=> frontend
                /\ (FrontendCheck \in Range(dir.debug)) <=> frontend]_vars

\* C39: loadWorktreeConfig right after saveWorktreeConfig(c) returns the
\* base_dir, copy_files and post_create values of c, empty lists included.
C39_ConfigRoundTrip ==
    [][ (lastOp.op = "saveWorktreeConfig" /\ IsCall("loadWorktreeConfig")) =>
          \A key \in DOMAIN lastOp.arg : lastOp'.ret[key] = lastOp.arg[key] ]_vars

\* The file values of the entries readJsonl gives for a manifest.
ListedFiles(dir, name) ==
    LET lines == SelectSeq(LinesOf(dir, name), KeptLine)
    IN  {lines[i].file : i \in DOMAIN lines}

\* C40: after any sequence of initContext and addContext calls no manifest
\* holds two entries with the same file value, and an addContext call for a
\* path the manifest already lists (a directory taken with its trailing
\* slash) leaves every file as it is.
C40_NoDuplicateEntries ==
    /\ [](\A key \in DOMAIN contextFiles : \A name \in DOMAIN contextFiles[key] :
            \A i, j \in DOMAIN contextFiles[key][name] :
                contextFiles[key][name][i].file = contextFiles[key][name][j].file
                  => i = j)
    /\ [][ IsCall("addContext") =>
            LET target == lastOp'.arg[3]
                path   == IF target.kind = "directory" /\ ~target.slash
                          THEN target.path \o "/" ELSE target.path
                name   == JsonlFileName(lastOp'.arg[2])
            IN  path \in ListedFiles(FilesOf(contextFiles, lastOp'.arg[1]), name)
                  => contextFiles' = contextFiles ]_vars

\* addContext was called for src/api, which implement.jsonl lists as
\* src/api/ next to the generated entries, and has only warned.
C40_Witness ==
    /\ lastOp.op = "addContext"
    /\ lastOp.ret = [warned |-> TRUE]
    /\ lastOp.arg[3] = [path |-> "src/api", kind |-> "directory", slash |-> FALSE]
    /\ lastOp.arg[2] = "implement"
    /\ Len(contextFiles[CtxKey(FixDir)].implement) = 6
    /\ contextFiles[CtxKey(FixDir)].implement[6].file = "src/api/"

====
